---- MODULE Spec2Model ----
(***************************************************************************)
(* A model of the regular-expression engine of regex-soup-bot:             *)
(* the RegexAst data type, its parser and printer, the AST -> NfaData      *)
(* compiler, the subset construction / product search that decides         *)
(* equivalence, and the random quiz generator.                             *)
(***************************************************************************)
EXTENDS Integers, Sequences, FiniteSets, TLC

(***************************************************************************)
(* Bounds of the model.                                                    *)
(***************************************************************************)
\* how many symbols of the 10-letter alphabet the drawn inputs range over
NumSymbols == 2
\* max_tree_size handed to BoundedRegexAstDistribution when ASTs are drawn
TreeBudget == 3

(***************************************************************************)
(* enum Alphabet (regex_tree.rs:32-44), in its canonical (derive(Ord))     *)
(* order.  A symbol is the name of its variant; a character of a text is a *)
(* one-character string.                                                   *)
(***************************************************************************)
Alphabet == <<"A", "B", "C", "D", "E", "F", "G", "H", "I", "J">>

LowerCase == <<"a", "b", "c", "d", "e", "f", "g", "h", "i", "j">>

\* impl Display for Alphabet: the lower-case letter of the variant
AlphabetFmt(self) == LowerCase[CHOOSE i \in 1..Len(Alphabet) : Alphabet[i] = self]

\* a from_char that knows the lower-case letters only
from_char_lower_only(input) ==
    IF \E i \in 1..Len(Alphabet) : input = LowerCase[i]
    THEN [ok |-> TRUE, v |-> Alphabet[CHOOSE i \in 1..Len(Alphabet) : input = LowerCase[i]]]
    ELSE [ok |-> FALSE, v |-> ""]

\* Alphabet::from_char: either case of the ten letters, an error otherwise
from_char(input) ==
    IF \E i \in 1..Len(Alphabet) : input \in {LowerCase[i], Alphabet[i]}
    THEN [ok |-> TRUE,
          v |-> Alphabet[CHOOSE i \in 1..Len(Alphabet) : input \in {LowerCase[i], Alphabet[i]}]]
    ELSE [ok |-> FALSE, v |-> ""]

\* Alphabet::vec_from_str: from_char on every character, collected into one
\* Result: the Vec of the symbols, or an error if any character has none
vec_from_str(string) ==
    IF \E i \in 1..Len(string) : ~from_char(string[i]).ok
    THEN [ok |-> FALSE, v |-> <<>>]
    ELSE [ok |-> TRUE, v |-> [i \in 1..Len(string) |-> from_char(string[i]).v]]

Min(x, y) == IF x <= y THEN x ELSE y

\* the symbols the inputs of the model are drawn from
Symbols == {Alphabet[i] : i \in 1..Min(NumSymbols, Len(Alphabet))}

(***************************************************************************)
(* enum RegexAst (regex_tree.rs:107-119).  Every node is a record of the   *)
(* same shape: k is the variant, s the symbol of a Literal, c the children *)
(* (one for Star, the Vec for Concatenation / Alternation).                *)
(***************************************************************************)
Epsilon == [k |-> "Epsilon", s |-> "", c |-> <<>>]
Literal(a) == [k |-> "Literal", s |-> a, c |-> <<>>]
Star(t) == [k |-> "Star", s |-> "", c |-> <<t>>]
Concatenation(ts) == [k |-> "Concatenation", s |-> "", c |-> ts]
Alternation(ts) == [k |-> "Alternation", s |-> "", c |-> ts]

RECURSIVE TreeSize(_)
RECURSIVE SumSizes(_, _)
SumSizes(ts, i) == IF i > Len(ts) THEN 0 ELSE TreeSize(ts[i]) + SumSizes(ts, i + 1)

\* number of nodes of an AST
TreeSize(t) == 1 + SumSizes(t.c, 1)

(***************************************************************************)
(* generate_quiz.rs: the sets of values the random samplers can return.    *)
(***************************************************************************)
RECURSIVE SortedSeq(_)
\* itertools sorted(): the ascending sequence of the elements of a set
SortedSeq(S) ==
    IF S = {} THEN <<>>
    ELSE LET m == CHOOSE x \in S : \A y \in S : x <= y
         IN <<m>> \o SortedSeq(S \ {m})

\* windows(2).map(|w| w[1] - w[0])
Windows(p) == [i \in 1..(Len(p) - 1) |-> p[i + 1] - p[i]]

\* PartitionTreeSize::sample without the chained end points 0 and target_sum
PartitionTreeSizeNoEnds(max_sum) ==
    {Windows(SortedSeq(cuts)) :
        cuts \in {C \in SUBSET (0..max_sum) : Cardinality(C) <= max_sum}}

\* PartitionTreeSize::sample: partition_count draws (0..=max_sum of them) from
\* [0, max_sum], chained with 0 and max_sum, sorted, deduplicated, differences.
PartitionTreeSize(max_sum) ==
    {Windows(SortedSeq(cuts \cup {0, max_sum})) :
        cuts \in {C \in SUBSET (0..max_sum) : Cardinality(C) <= max_sum}}

RECURSIVE BoundedRegexAstDistribution(_, _)
RECURSIVE TreesOfSizes(_, _, _)
\* sizes.into_iter().map(|size| BoundedRegexAstDistribution{size}.sample(rng))
TreesOfSizes(alphabet_set, sizes, i) ==
    IF i > Len(sizes) THEN {<<>>}
    ELSE {<<t>> \o rest :
            t \in BoundedRegexAstDistribution(alphabet_set, sizes[i]),
            rest \in TreesOfSizes(alphabet_set, sizes, i + 1)}

\* RegexTreeVec::sample
RegexTreeVec(alphabet_set, maximum_size_sum) ==
    UNION {TreesOfSizes(alphabet_set, sizes, 1) :
            sizes \in PartitionTreeSize(maximum_size_sum)}

\* BoundedRegexAstDistribution::sample: every AST some sequence of draws gives.
\* A case of weight 0 is never drawn by WeightedIndex.
BoundedRegexAstDistribution(alphabet_set, max_tree_size) ==
    {Epsilon}
    \cup {Literal(a) : a \in alphabet_set}
    \cup (IF max_tree_size >= 2
          THEN {Star(t) : t \in BoundedRegexAstDistribution(alphabet_set, max_tree_size - 1)}
          ELSE {})
    \cup (IF max_tree_size >= 3
          THEN {Concatenation(ts) : ts \in RegexTreeVec(alphabet_set, max_tree_size - 1)}
          ELSE {})
    \cup (IF max_tree_size >= 3
          THEN {Alternation(ts) : ts \in RegexTreeVec(alphabet_set, max_tree_size - 1)}
          ELSE {})

\* the ASTs the model draws its inputs from
AstSet == BoundedRegexAstDistribution(Symbols, TreeBudget)

(***************************************************************************)
(* nfa_manipulations.rs: NfaData and its combinators.  edges and finals    *)
(* are Vecs, kept as sequences; an edge is <<from, label, to>> and the     *)
(* label None of an epsilon-transition is NoLabel.                         *)
(***************************************************************************)
NoLabel == "None"

empty == [max_index |-> 0, edges |-> <<>>, finals |-> <<>>]

epsilon == [max_index |-> 0, edges |-> <<>>, finals |-> <<0>>]

literal(alphabet) ==
    [max_index |-> 1, edges |-> << <<0, alphabet, 1>> >>, finals |-> <<1>>]

\* a shift that leaves max_index as it was
disconnect_with_shift_keeps_max(self, shift_size) ==
    [max_index |-> self.max_index,
     edges |-> [i \in 1..Len(self.edges) |->
                   <<self.edges[i][1] + shift_size,
                     self.edges[i][2],
                     self.edges[i][3] + shift_size>>],
     finals |-> [i \in 1..Len(self.finals) |-> self.finals[i] + shift_size]]

disconnect_with_shift(self, shift_size) ==
    [max_index |-> self.max_index + shift_size,
     edges |-> [i \in 1..Len(self.edges) |->
                   <<self.edges[i][1] + shift_size,
                     self.edges[i][2],
                     self.edges[i][3] + shift_size>>],
     finals |-> [i \in 1..Len(self.finals) |-> self.finals[i] + shift_size]]

concat(self, right) ==
    LET shifted_right_start_index == self.max_index + 1
        shifted_right == disconnect_with_shift(right, shifted_right_start_index)
    IN [max_index |-> shifted_right.max_index,
        edges |-> self.edges \o shifted_right.edges
                  \o [i \in 1..Len(self.finals) |->
                         <<self.finals[i], NoLabel, shifted_right_start_index>>],
        finals |-> shifted_right.finals]

RECURSIVE Fold1Concat(_, _, _)
Fold1Concat(acc, nfas, i) ==
    IF i > Len(nfas) THEN acc ELSE Fold1Concat(concat(acc, nfas[i]), nfas, i + 1)

\* concat_all: fold1 of concat; the assert makes an empty Vec a panic
concat_all(nfas) ==
    IF Len(nfas) = 0 THEN "panic" ELSE Fold1Concat(nfas[1], nfas, 2)

RECURSIVE FoldUnion(_, _, _)
FoldUnion(accum, nfas, i) ==
    IF i > Len(nfas) THEN accum
    ELSE LET shifted_right_start_index == accum.max_index + 1
             shifted_nfa == disconnect_with_shift(nfas[i], shifted_right_start_index)
         IN FoldUnion(
              [max_index |-> shifted_nfa.max_index,
               edges |-> accum.edges \o shifted_nfa.edges
                         \o << <<0, NoLabel, shifted_right_start_index>> >>,
               finals |-> accum.finals \o shifted_nfa.finals],
              nfas, i + 1)

\* a union_all that folds a lone fragment like the others
union_all_folds_one(nfas) ==
    IF Len(nfas) = 0 THEN "panic" ELSE FoldUnion(empty, nfas, 1)

\* union_all: panics on an empty Vec, returns a lone fragment as it is,
\* otherwise folds the fragments onto a fresh start node 0
union_all(nfas) ==
    IF Len(nfas) = 0 THEN "panic"
    ELSE IF Len(nfas) = 1 THEN nfas[1]
    ELSE FoldUnion(empty, nfas, 1)

\* star that leaves out the edges from the accepting states back to 0
star_no_back_edges(nfa) ==
    LET shifted == disconnect_with_shift(nfa, 1)
    IN [max_index |-> shifted.max_index,
        edges |-> shifted.edges \o << <<0, NoLabel, 1>> >>,
        finals |-> <<0>>]

star(nfa) ==
    LET shifted == disconnect_with_shift(nfa, 1)
    IN [max_index |-> shifted.max_index,
        edges |-> shifted.edges
                  \o << <<0, NoLabel, 1>> >>
                  \o [i \in 1..Len(shifted.finals) |-> <<shifted.finals[i], NoLabel, 0>>],
        finals |-> <<0>>]

RECURSIVE compile_to_nfa_data(_)
\* RegexAst::compile_to_nfa_data
compile_to_nfa_data(self) ==
    CASE self.k = "Epsilon" -> epsilon
      [] self.k = "Literal" -> literal(self.s)
      [] self.k = "Star" -> star(compile_to_nfa_data(self.c[1]))
      [] self.k = "Concatenation" ->
            concat_all([i \in 1..Len(self.c) |-> compile_to_nfa_data(self.c[i])])
      [] self.k = "Alternation" ->
            union_all([i \in 1..Len(self.c) |-> compile_to_nfa_data(self.c[i])])

RECURSIVE used_alphabets(_)
\* RegexAst::used_alphabets: the set of the symbols of all Literal nodes
used_alphabets(self) ==
    CASE self.k = "Epsilon" -> {}
      [] self.k = "Literal" -> {self.s}
      [] OTHER -> UNION {used_alphabets(self.c[i]) : i \in 1..Len(self.c)}

(***************************************************************************)
(* The automata crate, as regex_tree.rs uses it: Nfa::from_edges,          *)
(* Nfa::into_dfa (subset construction over the given alphabet) and         *)
(* Dfa::pair_empty (search of the product automaton).                      *)
(***************************************************************************)
Range(f) == {f[i] : i \in DOMAIN f}

\* impl From<NfaData<A>> for Nfa<A>: Nfa::from_edges(edges, finals), start 0
NfaFrom(nfa_data) == [edges |-> Range(nfa_data.edges), finals |-> Range(nfa_data.finals)]

RECURSIVE EpsilonClosure(_, _)
EpsilonClosure(nfa, S) ==
    LET more == {e[3] : e \in {x \in nfa.edges : x[1] \in S /\ x[2] = NoLabel}} \ S
    IN IF more = {} THEN S ELSE EpsilonClosure(nfa, S \cup more)

\* successor of a DFA state: closure of the states reached over the symbol
DfaStep(nfa, S, a) ==
    EpsilonClosure(nfa, {e[3] : e \in {x \in nfa.edges : x[1] \in S /\ x[2] = a}})

RECURSIVE DfaExplore(_, _, _, _)
DfaExplore(nfa, alphabet, seen, frontier) ==
    IF frontier = {} THEN seen
    ELSE LET next == {DfaStep(nfa, S, a) : S \in frontier, a \in alphabet} \ seen
         IN DfaExplore(nfa, alphabet, seen \cup next, next)

\* Nfa::into_dfa(alphabet): states are epsilon-closed sets of NFA states, the
\* initial one the closure of {0}; the empty set is the absorbing trap
into_dfa(nfa, alphabet) ==
    LET init == EpsilonClosure(nfa, {0})
        states == DfaExplore(nfa, alphabet, {init}, {init})
    IN [alphabet |-> alphabet,
        init |-> init,
        states |-> states,
        trans |-> [S \in states, a \in alphabet |-> DfaStep(nfa, S, a)],
        finals |-> {S \in states : S \cap nfa.finals # {}}]

RECURSIVE PairExplore(_, _, _, _)
PairExplore(dfa_1, dfa_2, seen, frontier) ==
    IF frontier = {} THEN seen
    ELSE LET next == {<<dfa_1.trans[p[1], a], dfa_2.trans[p[2], a]>> :
                         p \in frontier, a \in dfa_1.alphabet} \ seen
         IN PairExplore(dfa_1, dfa_2, seen \cup next, next)

\* Dfa::pair_empty as equivalent_to relies on it (regex_tree.rs:276-282): the
\* search from the pair of initial states answers whether it reaches a pair
\* that the decider marks; equivalent_to negates that answer.
pair_empty(dfa_1, dfa_2, decider) ==
    LET start == <<dfa_1.init, dfa_2.init>>
    IN \E p \in PairExplore(dfa_1, dfa_2, {start}, {start}) :
          decider[p[1] \in dfa_1.finals, p[2] \in dfa_2.finals]

\* a decider that looks at the first automaton only
decider_first_only == [final_in_1 \in BOOLEAN, final_in_2 \in BOOLEAN |-> final_in_1]

\* the decider closure of equivalent_to: |final_in_1, final_in_2| final_in_1 && !final_in_2
decider ==
    [final_in_1 \in BOOLEAN, final_in_2 \in BOOLEAN |-> final_in_1 /\ ~final_in_2]

\* equivalent_to without the early return on different used alphabets
equivalent_to_no_alphabet_check(self, another) ==
    LET nfa_1 == NfaFrom(compile_to_nfa_data(self))
        nfa_2 == NfaFrom(compile_to_nfa_data(another))
        alphabet_extension == used_alphabets(self)
    IN ~pair_empty(into_dfa(nfa_1, alphabet_extension),
                   into_dfa(nfa_2, alphabet_extension), decider)

\* RegexAst::equivalent_to
equivalent_to(self, another) ==
    LET nfa_1 == NfaFrom(compile_to_nfa_data(self))
        nfa_2 == NfaFrom(compile_to_nfa_data(another))
        alphabet_extension == used_alphabets(self)
    IN IF alphabet_extension # used_alphabets(another) THEN FALSE
       ELSE ~pair_empty(into_dfa(nfa_1, alphabet_extension),
                        into_dfa(nfa_2, alphabet_extension), decider)

(***************************************************************************)
(* The language an AST denotes, by the meaning of the five variants        *)
(* (doc comments of RegexAst, regex_tree.rs:109-118).                      *)
(***************************************************************************)
RECURSIVE InLang(_, _)
RECURSIVE InConcat(_, _, _)
InConcat(ts, i, w) ==
    IF i > Len(ts) THEN w = <<>>
    ELSE \E n \in 0..Len(w) :
            /\ InLang(ts[i], SubSeq(w, 1, n))
            /\ InConcat(ts, i + 1, SubSeq(w, n + 1, Len(w)))

InLang(t, w) ==
    CASE t.k = "Epsilon" -> w = <<>>
      [] t.k = "Literal" -> w = <<t.s>>
      [] t.k = "Star" ->
            \/ w = <<>>
            \/ \E n \in 1..Len(w) :
                  /\ InLang(t.c[1], SubSeq(w, 1, n))
                  /\ InLang(t, SubSeq(w, n + 1, Len(w)))
      [] t.k = "Concatenation" -> InConcat(t.c, 1, w)
      [] t.k = "Alternation" -> \E i \in 1..Len(t.c) : InLang(t.c[i], w)

\* words are checked up to the length of the largest drawn AST
WordLen == TreeBudget

WordsOver(S, n) == UNION {[1..m -> S] : m \in 0..n}

\* all words over the model's symbols, up to WordLen
Words == WordsOver(Symbols, WordLen)

\* the words of Words an AST accepts
Lang(t) == {w \in Words : InLang(t, w)}

\* the language of every drawn AST, tabulated
LangOf == [t \in AstSet |-> Lang(t)]

SameLanguage(a, b) == LangOf[a] = LangOf[b]

(***************************************************************************)
(* The direct matcher: RegexAst::matches compiles the AST to the text of a *)
(* pattern and hands it to the regex crate.  A text is a sequence of       *)
(* characters.                                                             *)
(***************************************************************************)
RECURSIVE compile_to_epsilonless_regex(_)
RECURSIVE join_with_separator(_, _, _)
\* join_with_separator: the compiled children with sep between them
join_with_separator(sep, asts, i) ==
    IF i > Len(asts) THEN <<>>
    ELSE compile_to_epsilonless_regex(asts[i])
         \o (IF i < Len(asts) THEN sep ELSE <<>>)
         \o join_with_separator(sep, asts, i + 1)

\* RegexAst::compile_to_epsilonless_regex
compile_to_epsilonless_regex(self) ==
    CASE self.k = "Epsilon" -> <<"(", ".", "{", "0", "}", ")">>
      [] self.k = "Literal" -> <<AlphabetFmt(self.s)>>
      [] self.k = "Star" ->
            <<"(">> \o compile_to_epsilonless_regex(self.c[1]) \o <<")", "*">>
      [] self.k = "Concatenation" ->
            <<"(">> \o join_with_separator(<<>>, self.c, 1) \o <<")">>
      [] self.k = "Alternation" ->
            <<"(">> \o join_with_separator(<<"|">>, self.c, 1) \o <<")">>

\* A parsed pattern of the regex crate, for the syntax the compiled texts use:
\* literals, '.', the anchors, groups, '|', '*' and the counted repetition {0}.
RxNode(k, s, c) == [k |-> k, s |-> s, c |-> c]
RxFail == [ok |-> FALSE, node |-> RxNode("Empty", "", <<>>), pos |-> 0]
RxOk(node, pos) == [ok |-> TRUE, node |-> node, pos |-> pos]

RECURSIVE RxAlternation(_, _)
RECURSIVE RxAlternationRest(_, _, _)
RECURSIVE RxConcat(_, _, _)
RECURSIVE RxPostfix(_, _)

RxAtom(s, i) ==
    IF i > Len(s) THEN RxFail
    ELSE CASE s[i] = "(" ->
                 LET r == RxAlternation(s, i + 1)
                 IN IF r.ok /\ r.pos <= Len(s) /\ s[r.pos] = ")"
                    THEN RxOk(r.node, r.pos + 1)
                    ELSE RxFail
           [] s[i] = "." -> RxOk(RxNode("Any", "", <<>>), i + 1)
           [] s[i] = "^" -> RxOk(RxNode("StartText", "", <<>>), i + 1)
           [] s[i] = "$" -> RxOk(RxNode("EndText", "", <<>>), i + 1)
           [] s[i] \in {")", "|", "*", "{", "}"} -> RxFail
           [] OTHER -> RxOk(RxNode("Char", s[i], <<>>), i + 1)

RxPostfix(s, r) ==
    IF ~r.ok THEN r
    ELSE IF r.pos <= Len(s) /\ s[r.pos] = "*"
         THEN RxPostfix(s, RxOk(RxNode("Star", "", <<r.node>>), r.pos + 1))
    ELSE IF r.pos + 2 <= Len(s) /\ SubSeq(s, r.pos, r.pos + 2) = <<"{", "0", "}">>
         THEN RxPostfix(s, RxOk(RxNode("Repeat0", "", <<r.node>>), r.pos + 3))
    ELSE r

RxConcat(s, i, acc) ==
    IF i > Len(s) \/ s[i] \in {"|", ")"}
    THEN RxOk(RxNode("Concat", "", acc), i)
    ELSE LET r == RxPostfix(s, RxAtom(s, i))
         IN IF r.ok THEN RxConcat(s, r.pos, Append(acc, r.node)) ELSE RxFail

RxAlternationRest(s, i, acc) ==
    IF i <= Len(s) /\ s[i] = "|"
    THEN LET r == RxConcat(s, i + 1, <<>>)
         IN IF r.ok THEN RxAlternationRest(s, r.pos, Append(acc, r.node)) ELSE RxFail
    ELSE RxOk(RxNode("Alt", "", acc), i)

RxAlternation(s, i) ==
    LET r == RxConcat(s, i, <<>>)
    IN IF r.ok THEN RxAlternationRest(s, r.pos, <<r.node>>) ELSE RxFail

\* regex::Regex::new: an error unless all of the pattern is parsed
RegexNew(pattern) ==
    LET r == RxAlternation(pattern, 1)
    IN IF r.ok /\ r.pos = Len(pattern) + 1 THEN r ELSE RxFail

RECURSIVE RxSpan(_, _, _, _)
RECURSIVE RxSpanSeq(_, _, _, _, _)
RxSpanSeq(nodes, n, text, i, j) ==
    IF n > Len(nodes) THEN i = j
    ELSE \E m \in i..j : RxSpan(nodes[n], text, i, m) /\ RxSpanSeq(nodes, n + 1, text, m, j)

\* the pattern matches the characters of text after offset i up to offset j
RxSpan(node, text, i, j) ==
    CASE node.k = "Char" -> j = i + 1 /\ text[j] = node.s
      [] node.k = "Any" -> j = i + 1
      [] node.k = "StartText" -> i = j /\ i = 0
      [] node.k = "EndText" -> i = j /\ j = Len(text)
      [] node.k = "Repeat0" -> i = j
      [] node.k = "Star" ->
            \/ i = j
            \/ \E m \in (i + 1)..j :
                  RxSpan(node.c[1], text, i, m) /\ RxSpan(node, text, m, j)
      [] node.k = "Concat" -> RxSpanSeq(node.c, 1, text, i, j)
      [] node.k = "Alt" -> \E n \in 1..Len(node.c) : RxSpan(node.c[n], text, i, j)
      [] OTHER -> i = j

\* Regex::is_match: some part of the text matches the pattern
is_match(compiled, text) ==
    \E i \in 0..Len(text) : \E j \in i..Len(text) : RxSpan(compiled.node, text, i, j)

\* the word as text: input.iter().map(|a| format!("{}", a)).join("")
WordText(input) == [i \in 1..Len(input) |-> AlphabetFmt(input[i])]

\* RegexAst::matches; "panic" is the unwrap of a pattern the crate refuses
matches(self, input) ==
    LET regex == <<"^", "(">> \o compile_to_epsilonless_regex(self) \o <<")", "$">>
        compiled == RegexNew(regex)
    IN IF compiled.ok THEN is_match(compiled, WordText(input)) ELSE "panic"

\* the NFA path: the word is run through the DFA of the compiled NfaData
RECURSIVE DfaRun(_, _, _, _)
DfaRun(dfa, S, w, i) ==
    IF i > Len(w) THEN S ELSE DfaRun(dfa, dfa.trans[S, w[i]], w, i + 1)

NfaAccepts(self, w) ==
    LET dfa == into_dfa(NfaFrom(compile_to_nfa_data(self)), used_alphabets(self))
    IN DfaRun(dfa, dfa.init, w, 1) \in dfa.finals

(***************************************************************************)
(* The parser (regex_tree.rs:121-181), built from combine's combinators.   *)
(* A parser applied to the text s at position i answers "ok" with a node   *)
(* and the next position, or fails: "peek" when it consumed no input       *)
(* (combine then tries the next alternative, or ends a repetition), or     *)
(* "commit" when it failed after consuming input (the whole parse fails).  *)
(***************************************************************************)
POk(node, pos) == [st |-> "ok", node |-> node, pos |-> pos]
PErr(st) == [st |-> st, node |-> Epsilon, pos |-> 0]

\* letters of the texts of the model that are no Alphabet letter
OtherLetters == {"z", "ε"}

\* char::is_alphabetic on the characters of the model
is_alphabetic(ch) ==
    ch \in OtherLetters \/ \E i \in 1..Len(Alphabet) : ch \in {LowerCase[i], Alphabet[i]}

\* parser::char::string("ε").map(|_s| RegexAst::Epsilon)
parse_epsilon(s, i) ==
    IF i <= Len(s) /\ s[i] = "ε" THEN POk(Epsilon, i + 1) ELSE PErr("peek")

\* letter().then(...): the letter is consumed before from_char is asked
parse_literal(s, i) ==
    IF i <= Len(s) /\ is_alphabetic(s[i])
    THEN IF from_char(s[i]).ok
         THEN POk(Literal(from_char(s[i]).v), i + 1)
         ELSE PErr("commit")
    ELSE PErr("peek")

RECURSIVE regex_parser_(_, _)

\* char('(').with(regex_parser()).skip(char(')'))
parse_parens(s, i) ==
    IF i <= Len(s) /\ s[i] = "("
    THEN LET skip(r) == IF r.st = "ok" /\ r.pos <= Len(s) /\ s[r.pos] = ")"
                        THEN POk(r.node, r.pos + 1)
                        ELSE PErr("commit")
         IN skip(regex_parser_(s, i + 1))
    ELSE PErr("peek")

\* choice!(parse_epsilon, parse_literal, '(' regex_parser ')')
parse_epsilon_literal_or_parens(s, i) ==
    LET or_parens(l) == IF l.st # "peek" THEN l ELSE parse_parens(s, i)
        or_literal(e) == IF e.st # "peek" THEN e ELSE or_parens(parse_literal(s, i))
    IN or_literal(parse_epsilon(s, i))

RECURSIVE ManyStars(_, _)
\* combine::many(char('*')): how many '*' follow
ManyStars(s, i) == IF i <= Len(s) /\ s[i] = "*" THEN 1 + ManyStars(s, i + 1) ELSE 0

\* parse_repetitions that wraps the atom again when a second '*' follows
parse_repetitions_each_star(s, i) ==
    LET map(ast, pos, reps) ==
            POk(IF reps >= 2 THEN Star(Star(ast)) ELSE IF reps = 1 THEN Star(ast) ELSE ast,
                pos + reps)
        and(r) == IF r.st # "ok" THEN r ELSE map(r.node, r.pos, ManyStars(s, r.pos))
    IN and(parse_epsilon_literal_or_parens(s, i))

\* parse_repetitions: the atom, in one Star if any '*' follows
parse_repetitions(s, i) ==
    LET map(ast, pos, reps) == POk(IF reps # 0 THEN Star(ast) ELSE ast, pos + reps)
        and(r) == IF r.st # "ok" THEN r ELSE map(r.node, r.pos, ManyStars(s, r.pos))
    IN and(parse_epsilon_literal_or_parens(s, i))

RECURSIVE Many1Rest(_, _, _)
\* combine::many1 after its first element: elements are collected until one
\* fails without consuming input; node is the Vec of the elements
Many1Rest(s, i, asts) ==
    LET next(r) == CASE r.st = "ok" -> Many1Rest(s, r.pos, Append(asts, r.node))
                     [] r.st = "peek" -> POk(asts, i)
                     [] OTHER -> r
    IN next(parse_repetitions(s, i))

Many1(s, i) ==
    LET rest(first) ==
            IF first.st # "ok" THEN first ELSE Many1Rest(s, first.pos, <<first.node>>)
    IN rest(parse_repetitions(s, i))

\* parse_concat that wraps a lone element too
parse_concat_always_wrap(s, i) ==
    LET map(r) == IF r.st # "ok" THEN r ELSE POk(Concatenation(r.node), r.pos)
    IN map(Many1(s, i))

\* parse_concat: many1(parse_repetitions), a lone element is not wrapped
parse_concat(s, i) ==
    LET map(r) ==
            IF r.st # "ok" THEN r
            ELSE POk(IF Len(r.node) > 1 THEN Concatenation(r.node) ELSE r.node[1], r.pos)
    IN map(Many1(s, i))

RECURSIVE SepBy1Rest(_, _, _)
\* combine::sep_by1 after its first element; node is the Vec of the elements
SepBy1Rest(s, i, asts) ==
    IF i <= Len(s) /\ s[i] = "|"
    THEN LET next(r) == IF r.st = "ok" THEN SepBy1Rest(s, r.pos, Append(asts, r.node))
                        ELSE PErr("commit")
         IN next(parse_concat(s, i + 1))
    ELSE POk(asts, i)

SepBy1(s, i) ==
    LET rest(first) ==
            IF first.st # "ok" THEN first ELSE SepBy1Rest(s, first.pos, <<first.node>>)
    IN rest(parse_concat(s, i))

\* a parser that splits at '|' inside each run: alternation binds tighter
\* than concatenation
RECURSIVE regex_parser_alt_first(_, _)
RECURSIVE AltFirstRest(_, _, _)
RECURSIVE AltFirstSep(_, _, _)
AltFirstSep(s, i, asts) ==
    IF i <= Len(s) /\ s[i] = "|"
    THEN LET next(r) == IF r.st = "ok" THEN AltFirstSep(s, r.pos, Append(asts, r.node))
                        ELSE PErr("commit")
         IN next(parse_repetitions(s, i + 1))
    ELSE POk(IF Len(asts) > 1 THEN Alternation(asts) ELSE asts[1], i)

AltFirstRest(s, i, asts) ==
    LET next(r) ==
            CASE r.st = "ok" -> AltFirstRest(s, r.pos, Append(asts, r.node))
              [] r.st = "peek" /\ Len(asts) > 0 ->
                    POk(IF Len(asts) > 1 THEN Concatenation(asts) ELSE asts[1], i)
              [] OTHER -> r
        alts(f) == IF f.st = "ok" THEN AltFirstSep(s, f.pos, <<f.node>>) ELSE f
    IN next(alts(parse_repetitions(s, i)))

regex_parser_alt_first(s, i) == AltFirstRest(s, i, <<>>)

\* regex_parser_ that wraps a lone element in an Alternation too
regex_parser_always_wrap(s, i) ==
    LET map(r) == IF r.st # "ok" THEN r ELSE POk(Alternation(r.node), r.pos)
    IN map(SepBy1(s, i))

\* regex_parser_: sep_by1(parse_concat, char('|')), a lone element is not wrapped
regex_parser_(s, i) ==
    LET map(r) ==
            IF r.st # "ok" THEN r
            ELSE POk(IF Len(r.node) > 1 THEN Alternation(r.node) ELSE r.node[1], r.pos)
    IN map(SepBy1(s, i))

ParseOk(ast) == [tag |-> "Ok", ast |-> ast]
ParseErr == [tag |-> "Err", ast |-> Epsilon]
ParsePanic == [tag |-> "Panic", ast |-> Epsilon]

\* RegexAst::parse_str: `?` on the parser's error, then
\* assert!(remaining.is_empty()), then Ok(ast)
parse_str(string) ==
    LET result(r) == IF r.st # "ok" THEN ParseErr
                     ELSE IF r.pos <= Len(string) THEN ParsePanic
                     ELSE ParseOk(r.node)
    IN result(regex_parser_(string, 1))

RECURSIVE Fmt(_)
RECURSIVE FmtJoin(_, _, _)
FmtJoin(sep, asts, i) ==
    IF i > Len(asts) THEN <<>>
    ELSE Fmt(asts[i]) \o (IF i < Len(asts) THEN sep ELSE <<>>) \o FmtJoin(sep, asts, i + 1)

\* a Display that writes Star(x) with no parentheses around x
Fmt_star_bare(self) ==
    CASE self.k = "Epsilon" -> <<"ε">>
      [] self.k = "Literal" -> <<AlphabetFmt(self.s)>>
      [] self.k = "Star" -> Fmt(self.c[1]) \o <<"*">>
      [] self.k = "Concatenation" -> <<"(">> \o FmtJoin(<<>>, self.c, 1) \o <<")">>
      [] self.k = "Alternation" -> <<"(">> \o FmtJoin(<<"|">>, self.c, 1) \o <<")">>

\* impl Display for RegexAst
Fmt(self) ==
    CASE self.k = "Epsilon" -> <<"ε">>
      [] self.k = "Literal" -> <<AlphabetFmt(self.s)>>
      [] self.k = "Star" -> <<"(">> \o Fmt(self.c[1]) \o <<")", "*">>
      [] self.k = "Concatenation" -> <<"(">> \o FmtJoin(<<>>, self.c, 1) \o <<")">>
      [] self.k = "Alternation" -> <<"(">> \o FmtJoin(<<"|">>, self.c, 1) \o <<")">>

(***************************************************************************)
(* The reading the doc comment of RegexAst prescribes (regex_tree.rs:      *)
(* 102-106): Star binds tighter than Concatenation, Concatenation tighter  *)
(* than Alternation.  RefExpr reads a text by that rule alone: it splits   *)
(* at the '|' outside all parentheses, then each part into its factors     *)
(* (an atom and the stars after it), then reads each atom.                 *)
(***************************************************************************)
Count(s, i, ch) == Cardinality({j \in 1..i : s[j] = ch})
Depth(s, i) == Count(s, i, "(") - Count(s, i, ")")
Balanced(s) == Depth(s, Len(s)) = 0 /\ \A i \in 1..Len(s) : Depth(s, i) >= 0

RefOk(ast) == [ok |-> TRUE, ast |-> ast]
RefNone == [ok |-> FALSE, ast |-> Epsilon]

RECURSIVE RefExpr(_)
RECURSIVE RefFactors(_, _, _)

RefAtom(a) ==
    IF a = <<"ε">> THEN RefOk(Epsilon)
    ELSE IF Len(a) = 1
         THEN IF from_char(a[1]).ok THEN RefOk(Literal(from_char(a[1]).v)) ELSE RefNone
    ELSE RefExpr(SubSeq(a, 2, Len(a) - 1))

\* the factors of s from position i on: an atom, a letter or a parenthesized
\* group, and all the stars that follow it
RefFactors(s, i, acc) ==
    IF i > Len(s) THEN RefOk(acc)
    ELSE IF s[i] \in {"*", ")", "|"} THEN RefNone
    ELSE LET atomEnd == IF s[i] = "("
                        THEN CHOOSE j \in i..Len(s) :
                                /\ Depth(s, j) = Depth(s, i - 1)
                                /\ \A m \in i..(j - 1) : Depth(s, m) > Depth(s, i - 1)
                        ELSE i
             last == CHOOSE j \in atomEnd..Len(s) :
                        /\ \A m \in (atomEnd + 1)..j : s[m] = "*"
                        /\ (j = Len(s) \/ s[j + 1] # "*")
             atom == RefAtom(SubSeq(s, i, atomEnd))
         IN IF ~atom.ok THEN RefNone
            ELSE RefFactors(s, last + 1,
                            Append(acc, IF last > atomEnd THEN Star(atom.ast) ELSE atom.ast))

RefConcat(s) ==
    LET fs == RefFactors(s, 1, <<>>)
    IN IF ~fs.ok \/ Len(fs.ast) = 0 THEN RefNone
       ELSE IF Len(fs.ast) > 1 THEN RefOk(Concatenation(fs.ast))
       ELSE RefOk(fs.ast[1])

RefExpr(s) ==
    IF ~Balanced(s) THEN RefNone
    ELSE LET bars == {i \in 1..Len(s) : s[i] = "|" /\ Depth(s, i) = 0}
             cuts == SortedSeq(bars \cup {0, Len(s) + 1})
             parts == [n \in 1..(Len(cuts) - 1) |->
                          RefConcat(SubSeq(s, cuts[n] + 1, cuts[n + 1] - 1))]
         IN IF \E n \in 1..Len(parts) : ~parts[n].ok THEN RefNone
            ELSE IF Len(parts) > 1
                 THEN RefOk(Alternation([n \in 1..Len(parts) |-> parts[n].ast]))
            ELSE parts[1]

(***************************************************************************)
(* State.                                                                  *)
(***************************************************************************)
VARIABLES
    eqPc,       \* equivalence check: "idle", "input", "called", "both"
    eqA,        \* self
    eqB,        \* another
    eqRes,      \* self.equivalent_to(another)
    eqRev,      \* another.equivalent_to(self)
    mPc,        \* matching: "idle", "input", "matched", "both"
    mAst,       \* the AST
    mWord,      \* the word, a sequence of symbols
    mDirect,    \* mAst.matches(mWord)
    mNfa,       \* the answer of the NFA path
    pPc,        \* parsing: "idle", "input", "parsed", "round"
    pText,      \* the text handed to parse_str
    pRes,       \* parse_str(pText)
    pRound,     \* parse_str of the rendering of the parsed AST
    gPc,        \* randomly_generate: "idle", "sample", "estimate", "returned", "round"
    gDiff,      \* the difficulty
    gAst,       \* the candidate of the current round of the loop
    gDrawn,     \* words drawn so far by estimate_acceptance_probability
    gMatched,   \* how many of them the candidate matched
    gRound,     \* parse_str of the rendering of the returned AST
    aPc,        \* vec_from_str: "idle", "input", "called"
    aText,      \* the string handed to vec_from_str
    aRes,       \* Alphabet::vec_from_str(aText)
    fPc,        \* Display: "idle", "input", "formatted"
    fAst,       \* the AST
    fText,      \* format!("{}", fAst)
    qPc,        \* Quiz: "idle", "ready", "returned"
    qSize,      \* Quiz::size
    qRegex,     \* Quiz::regex
    qHistory,   \* Quiz::history, pairs <<input, outcome>> in insertion order
    qOp,        \* the last call: "none", "query", "inspect"
    qInput,     \* the input of that call
    qOut,       \* what that call returned
    cPc,        \* generate_regex, per call, the caller: "idle", "waiting", "returned"
    cTask,      \* per call, the spawned task: "none", "spawned", "running", "done"
    cChan,      \* per call, the oneshot channel: "none", "open", "quiz", "dropped"
    cTimer,     \* per call, milliseconds since the Timeout was created
    cRes,       \* per call, what generate_regex returned: "None", "Quiz", "Timeout"
    qParticipants,  \* Quiz::participants
    qUser,      \* the user of the last register / accepts_give_up
    bMap,       \* CONTAINER.channel_map at the channel: no entry, None, or Some(quiz)
    bPoisoned,  \* the Mutex of CONTAINER is poisoned
    bNextId,    \* the number of the next quiz instance start creates
    bPc,        \* per handler task, where it stands
    bUser,      \* per handler task, command.user.id
    bArg,       \* per handler task, valid_input
    bReply,     \* per handler task, what it answers
    bSeen,      \* per handler task, the quiz instance its guess or give-up was evaluated on
    nX,         \* an NfaData value built so far
    nY,         \* another one
    nOp,        \* the last operation applied
    nFrags,     \* the fragments handed to it
    tPc,        \* BoundedRegexAstDistribution::sample: "idle", "sample", "leaf", "partition", "children", "panicked"
    tBudget,    \* max_tree_size of the distribution being sampled
    tMax,       \* max_sum of the PartitionTreeSize being sampled
    tParts      \* the list PartitionTreeSize::sample returned

eqVars == <<eqPc, eqA, eqB, eqRes, eqRev>>
mVars == <<mPc, mAst, mWord, mDirect, mNfa>>
pVars == <<pPc, pText, pRes, pRound>>
gVars == <<gPc, gDiff, gAst, gDrawn, gMatched, gRound>>

aVars == <<aPc, aText, aRes>>
fVars == <<fPc, fAst, fText>>
qVars == <<qPc, qSize, qRegex, qHistory, qOp, qInput, qOut, qParticipants, qUser>>
cVars == <<cPc, cTask, cChan, cTimer, cRes>>
bVars == <<bMap, bPoisoned, bNextId, bPc, bUser, bArg, bReply, bSeen>>
nVars == <<nX, nY, nOp, nFrags>>
tVars == <<tPc, tBudget, tMax, tParts>>

vars == <<eqVars, mVars, pVars, gVars, aVars, fVars, qVars, cVars, bVars, nVars, tVars>>

EqIdle ==
    /\ eqPc = "idle"
    /\ eqA = Epsilon
    /\ eqB = Epsilon
    /\ eqRes = FALSE
    /\ eqRev = FALSE

MatchIdle ==
    /\ mPc = "idle"
    /\ mAst = Epsilon
    /\ mWord = <<>>
    /\ mDirect = FALSE
    /\ mNfa = FALSE

ParseIdle ==
    /\ pPc = "idle"
    /\ pText = <<>>
    /\ pRes = ParseErr
    /\ pRound = ParseErr

GenIdle ==
    /\ gPc = "idle"
    /\ gDiff = 1
    /\ gAst = Epsilon
    /\ gDrawn = 0
    /\ gMatched = 0
    /\ gRound = ParseErr

AlphaIdle ==
    /\ aPc = "idle"
    /\ aText = <<>>
    /\ aRes = [ok |-> FALSE, v |-> <<>>]

FmtIdle ==
    /\ fPc = "idle"
    /\ fAst = Epsilon
    /\ fText = <<>>

QuizIdle ==
    /\ qPc = "idle"
    /\ qSize = 1
    /\ qRegex = Epsilon
    /\ qHistory = <<>>
    /\ qOp = "none"
    /\ qInput = <<>>
    /\ qOut = [tag |-> "None", invalid |-> <<>>, domain |-> <<>>]
    /\ qParticipants = {}
    /\ qUser = 0

\* Concurrent calls of generate_regex, and the worker threads of the runtime
\* that #[tokio::main] builds (as many as the machine has cores).
NumCalls == 2
NumWorkers == 2
Calls == 1..NumCalls

CmdIdle ==
    /\ cPc = [i \in Calls |-> "idle"]
    /\ cTask = [i \in Calls |-> "none"]
    /\ cChan = [i \in Calls |-> "none"]
    /\ cTimer = [i \in Calls |-> 0]
    /\ cRes = [i \in Calls |-> "None"]

\* Handler tasks running at once on one channel, and the users of the channel.
NumTasks == 2
NumUsers == 2
Tasks == 1..NumTasks
Users == 1..NumUsers

\* channel_map.get(&channel_id): no entry, and the entry None
Absent == [st |-> "absent"]
NoQuiz == [st |-> "none"]

BotIdle ==
    /\ bMap = Absent
    /\ bPoisoned = FALSE
    /\ bNextId = 1
    /\ bPc = [t \in Tasks |-> "idle"]
    /\ bUser = [t \in Tasks |-> 0]
    /\ bArg = [t \in Tasks |-> <<>>]
    /\ bReply = [t \in Tasks |-> "None"]
    /\ bSeen = [t \in Tasks |-> 0]

NfaIdle ==
    /\ nX = <<>>
    /\ nY = <<>>
    /\ nOp = "idle"
    /\ nFrags = <<>>

PartIdle ==
    /\ tPc = "idle"
    /\ tBudget = 0
    /\ tMax = 0
    /\ tParts = <<>>

(***************************************************************************)
(* SpecEquiv: equivalent_to on every pair of drawn ASTs.                   *)
(***************************************************************************)
InitEquiv ==
    /\ eqPc = "input"
    /\ eqA \in AstSet
    /\ eqB \in AstSet
    /\ eqRes = FALSE
    /\ eqRev = FALSE
    /\ MatchIdle
    /\ ParseIdle
    /\ GenIdle
    /\ AlphaIdle
    /\ FmtIdle
    /\ QuizIdle
    /\ CmdIdle
    /\ BotIdle
    /\ NfaIdle
    /\ PartIdle

\* self.equivalent_to(&another)
CallEquivalentTo ==
    /\ eqPc = "input"
    /\ eqRes' = equivalent_to(eqA, eqB)
    /\ eqPc' = "called"
    /\ UNCHANGED <<eqA, eqB, eqRev, mVars, pVars, gVars, aVars, fVars, qVars, cVars, bVars, nVars, tVars>>

\* another.equivalent_to(&self)
CallEquivalentToSwapped ==
    /\ eqPc = "called"
    /\ eqRev' = equivalent_to(eqB, eqA)
    /\ eqPc' = "both"
    /\ UNCHANGED <<eqA, eqB, eqRes, mVars, pVars, gVars, aVars, fVars, qVars, cVars, bVars, nVars, tVars>>

NextEquiv == CallEquivalentTo \/ CallEquivalentToSwapped

SpecEquiv == InitEquiv /\ [][NextEquiv]_vars

\* C1: equivalent_to(a, b) is true exactly when a and b denote the same
\* language (no word is accepted by exactly one of them).
C1_EquivalentIffSameLanguage ==
    eqPc = "called" => (eqRes <=> SameLanguage(eqA, eqB))

\* C2: equivalent_to is symmetric: equivalent_to(a, b) = equivalent_to(b, a).
C2_EquivalentSymmetric ==
    eqPc = "both" => (eqRes = eqRev)

\* C3: equivalent_to is reflexive: equivalent_to(a, a) is true for every AST a,
\* Epsilon and a single Literal included.
C3_EquivalentReflexive ==
    (eqPc \in {"called", "both"} /\ eqA = eqB) => eqRes

C3_Witness ==
    /\ eqPc = "called"
    /\ eqA = eqB
    /\ eqA.k = "Literal"
    /\ eqRes

\* the symbols occurring in a word
WordSymbols(w) == {w[i] : i \in 1..Len(w)}

\* C4: when the used alphabets differ equivalent_to answers false, and rightly:
\* the languages differ, every accepted word stays within the used alphabet,
\* and every used symbol occurs in some accepted word.
C4_DifferentAlphabetsInequivalent ==
    eqPc = "called" =>
        /\ \A w \in LangOf[eqA] : WordSymbols(w) \subseteq used_alphabets(eqA)
        /\ \A x \in used_alphabets(eqA) : \E w \in LangOf[eqA] : x \in WordSymbols(w)
        /\ used_alphabets(eqA) # used_alphabets(eqB) =>
              /\ ~eqRes
              /\ ~SameLanguage(eqA, eqB)

C4_Witness ==
    /\ eqPc = "called"
    /\ used_alphabets(eqA) = {"A", "B"}
    /\ used_alphabets(eqB) = {"A"}
    /\ eqA.k = "Alternation"
    /\ ~eqRes

(***************************************************************************)
(* SpecMatch: the direct matcher and the NFA path on every drawn AST and   *)
(* every word over its used alphabet.                                      *)
(***************************************************************************)
InitMatch ==
    /\ mPc = "input"
    /\ mAst \in AstSet
    /\ mWord \in WordsOver(used_alphabets(mAst), WordLen)
    /\ mDirect = FALSE
    /\ mNfa = FALSE
    /\ EqIdle
    /\ ParseIdle
    /\ GenIdle
    /\ AlphaIdle
    /\ FmtIdle
    /\ QuizIdle
    /\ CmdIdle
    /\ BotIdle
    /\ NfaIdle
    /\ PartIdle

\* self.matches(&input)
CallMatches ==
    /\ mPc = "input"
    /\ mDirect' = matches(mAst, mWord)
    /\ mPc' = "matched"
    /\ UNCHANGED <<mAst, mWord, mNfa, eqVars, pVars, gVars, aVars, fVars, qVars, cVars, bVars, nVars, tVars>>

\* the same word through compile_to_nfa_data and the subset construction
RunNfa ==
    /\ mPc = "matched"
    /\ mNfa' = NfaAccepts(mAst, mWord)
    /\ mPc' = "both"
    /\ UNCHANGED <<mAst, mWord, mDirect, eqVars, pVars, gVars, aVars, fVars, qVars, cVars, bVars, nVars, tVars>>

NextMatch == CallMatches \/ RunNfa

SpecMatch == InitMatch /\ [][NextMatch]_vars

\* C5: on every word over the AST's used alphabet the direct matcher, the NFA
\* of compile_to_nfa_data and the language of the five variants agree.
C5_MatcherAgreesWithNfa ==
    mPc = "both" =>
        /\ mDirect = mNfa
        /\ mDirect = InLang(mAst, mWord)

C5_Witness ==
    /\ mPc = "both"
    /\ mAst.k = "Concatenation"
    /\ Len(mAst.c) = 2
    /\ Len(mWord) = 2
    /\ mDirect
    /\ mNfa

\* C6: every AST denotes a non-empty language: some word is in its language
\* and is accepted by the matcher.
C6_LanguageNonEmpty ==
    mPc # "idle" => \E w \in Words : InLang(mAst, w) /\ matches(mAst, w)

C6_Witness ==
    /\ mPc = "matched"
    /\ mAst.k = "Alternation"
    /\ mDirect

(***************************************************************************)
(* SpecParse: parse_str on every text up to MaxText characters and on the  *)
(* texts of tests::str_to_regex_ast, then on the rendering of its result.  *)
(***************************************************************************)
\* longest drawn text
MaxText == 5

\* the characters the drawn texts are made of: letters of the alphabet, the
\* operators, ε, and a letter that is no Alphabet
TextChars == {"a", "b", "(", ")", "|", "*", "ε", "z"}

\* the inputs of tests::str_to_regex_ast (regex_tree.rs:335-370), and one in upper case
TestTexts ==
    {<<"a", "b", "c">>,
     <<"a", "b", "|", "c">>,
     <<"a", "b", "*", "|", "c", "d">>,
     <<"A", "b", "*", "|", "C", "D">>}

Texts == (UNION {[1..n -> TextChars] : n \in 0..MaxText}) \cup TestTexts

InitParse ==
    /\ pPc = "input"
    /\ pText \in Texts
    /\ pRes = ParseErr
    /\ pRound = ParseErr
    /\ EqIdle
    /\ MatchIdle
    /\ GenIdle
    /\ AlphaIdle
    /\ FmtIdle
    /\ QuizIdle
    /\ CmdIdle
    /\ BotIdle
    /\ NfaIdle
    /\ PartIdle

\* RegexAst::parse_str(pText)
CallParseStr ==
    /\ pPc = "input"
    /\ pRes' = parse_str(pText)
    /\ pPc' = "parsed"
    /\ UNCHANGED <<pText, pRound, eqVars, mVars, gVars, aVars, fVars, qVars, cVars, bVars, nVars, tVars>>

\* RegexAst::parse_str(&format!("{}", ast)) on the AST parse_str returned
ParseRendered ==
    /\ pPc = "parsed"
    /\ pRes.tag = "Ok"
    /\ pRound' = parse_str(Fmt(pRes.ast))
    /\ pPc' = "round"
    /\ UNCHANGED <<pText, pRes, eqVars, mVars, gVars, aVars, fVars, qVars, cVars, bVars, nVars, tVars>>

NextParse == CallParseStr \/ ParseRendered

SpecParse == InitParse /\ [][NextParse]_vars

\* C7: parsing the rendering of an AST that parse_str returned succeeds and
\* gives a structurally equal AST.
C7_ParseRenderRoundTrip ==
    pPc = "round" => pRound = ParseOk(pRes.ast)

C7_Witness ==
    /\ pPc = "round"
    /\ pRes.tag = "Ok"
    /\ pRes.ast.k = "Alternation"
    /\ pRound = ParseOk(pRes.ast)
    /\ Fmt(pRes.ast) # pText

\* C9: parse_str never panics: malformed text (unknown letter, unbalanced
\* parentheses, input left over after a complete parse) gives an error value.
C9_ParseStrNeverPanics ==
    pPc \in {"parsed", "round"} =>
        /\ pRes.tag # "Panic"
        /\ (~RefExpr(pText).ok => pRes.tag = "Err")

\* C10: the parsed AST is the AST of the reading in which Star binds tighter
\* than Concatenation and Concatenation tighter than Alternation; ab*|cd is
\* Alternation[Concatenation[a, Star(b)], Concatenation[c, d]].
C10_ParserPrecedence ==
    /\ (pPc \in {"parsed", "round"} /\ pRes.tag = "Ok") => RefExpr(pText) = RefOk(pRes.ast)
    /\ (pPc = "parsed" /\ pText = <<"a", "b", "*", "|", "c", "d">>) =>
          pRes = ParseOk(Alternation(<<
                    Concatenation(<<Literal("A"), Star(Literal("B"))>>),
                    Concatenation(<<Literal("C"), Literal("D")>>)>>))

C10_Witness ==
    /\ pPc = "parsed"
    /\ pText = <<"a", "b", "*", "|", "c", "d">>
    /\ pRes.tag = "Ok"
    /\ pRes.ast.k = "Alternation"

\* C11: an atom followed by n '*' parses to the atom itself when n = 0 and to
\* the atom in exactly one Star when n >= 1, whatever n is.
C11_StarsCollapse ==
    pPc = "parsed" =>
        LET len == Len(pText)
            n == CHOOSE k \in 0..len :
                    /\ \A i \in (len - k + 1)..len : pText[i] = "*"
                    /\ (k = len \/ pText[len - k] # "*")
            base == SubSeq(pText, 1, len - n)
            atom == parse_epsilon_literal_or_parens(base, 1)
        IN (atom.st = "ok" /\ atom.pos = Len(base) + 1) =>
               pRes = ParseOk(IF n = 0 THEN atom.node ELSE Star(atom.node))

C11_Witness ==
    /\ pPc = "parsed"
    /\ pText = <<"(", "a", ")", "*", "*">>
    /\ pRes = ParseOk(Star(Literal("A")))

RECURSIVE Canonical(_)
\* every Concatenation and Alternation node of the tree has at least 2 children
Canonical(ast) ==
    /\ (ast.k \in {"Concatenation", "Alternation"} => Len(ast.c) >= 2)
    /\ \A i \in 1..Len(ast.c) : Canonical(ast.c[i])

\* C12: an AST that parse_str returns is in canonical form: no Concatenation
\* or Alternation node with fewer than 2 children anywhere in it.
C12_ParsedCanonical ==
    (pPc \in {"parsed", "round"} /\ pRes.tag = "Ok") => Canonical(pRes.ast)

C12_Witness ==
    /\ pPc = "parsed"
    /\ pRes.tag = "Ok"
    /\ pRes.ast.k = "Alternation"
    /\ Len(pRes.ast.c) = 2
    /\ pRes.ast.c[1].k = "Concatenation"
    /\ pText = <<"a", "b", "|", "b">>

(***************************************************************************)
(* SpecAlpha: Alphabet::vec_from_str on every string up to MaxWord         *)
(* characters made of the twenty letters a..j, A..J and of characters      *)
(* outside them.                                                           *)
(***************************************************************************)
\* longest string handed to vec_from_str
MaxWord == 2

\* characters that are no letter of the alphabet in either case
ForeignChars == {"k", "z", "Z", "ε"}

WordChars == {LowerCase[i] : i \in 1..Len(LowerCase)} \cup {Alphabet[i] : i \in 1..Len(Alphabet)}
                 \cup ForeignChars

InitAlpha ==
    /\ aPc = "input"
    /\ aText \in UNION {[1..n -> WordChars] : n \in 0..MaxWord}
    /\ aRes = [ok |-> FALSE, v |-> <<>>]
    /\ EqIdle
    /\ MatchIdle
    /\ ParseIdle
    /\ GenIdle
    /\ FmtIdle
    /\ QuizIdle
    /\ CmdIdle
    /\ BotIdle
    /\ NfaIdle
    /\ PartIdle

\* Alphabet::vec_from_str(aText)
CallVecFromStr ==
    /\ aPc = "input"
    /\ aRes' = vec_from_str(aText)
    /\ aPc' = "called"
    /\ UNCHANGED <<aText, eqVars, mVars, pVars, gVars, fVars, qVars, cVars, bVars, nVars, tVars>>

NextAlpha == CallVecFromStr

SpecAlpha == InitAlpha /\ [][NextAlpha]_vars

\* the upper-case form of a rendered symbol
ToUpper(ch) ==
    CASE ch = "a" -> "A" [] ch = "b" -> "B" [] ch = "c" -> "C" [] ch = "d" -> "D"
      [] ch = "e" -> "E" [] ch = "f" -> "F" [] ch = "g" -> "G" [] ch = "h" -> "H"
      [] ch = "i" -> "I" [] ch = "j" -> "J"

\* C13: vec_from_str of the rendering of a symbol sequence, each letter in
\* lower or upper case, is that sequence; a string with a character outside
\* a..j / A..J gives an error.
C13_AlphabetRoundTrip ==
    aPc = "called" =>
        /\ \A word \in [1..Len(aText) -> {Alphabet[i] : i \in 1..Len(Alphabet)}] :
               (\A i \in 1..Len(aText) :
                    aText[i] \in {AlphabetFmt(word[i]), ToUpper(AlphabetFmt(word[i]))})
                   => aRes = [ok |-> TRUE, v |-> word]
        /\ (\E i \in 1..Len(aText) :
                aText[i] \notin {"a", "b", "c", "d", "e", "f", "g", "h", "i", "j",
                                 "A", "B", "C", "D", "E", "F", "G", "H", "I", "J"})
               => ~aRes.ok

C13_Witness ==
    /\ aPc = "called"
    /\ aText = <<"b", "J">>
    /\ aRes = [ok |-> TRUE, v |-> <<"B", "J">>]

(***************************************************************************)
(* SpecFmt: format!("{}", ast) on every drawn AST and on the ASTs of       *)
(* tests::fmt_regex_ast.                                                   *)
(***************************************************************************)
\* the ASTs of tests::fmt_regex_ast (regex_tree.rs:409-476)
TestAsts ==
    {Concatenation(<<Literal("A"), Literal("B"), Epsilon>>),
     Alternation(<<Literal("A"), Literal("B"), Epsilon>>),
     Star(Alternation(<<Literal("A"), Literal("G")>>)),
     Star(Alternation(<<Literal("A"), Concatenation(<<Literal("B"), Literal("C")>>)>>)),
     Star(Alternation(<<Alternation(<<Literal("A"), Literal("C")>>),
                        Concatenation(<<Literal("B"), Literal("C")>>)>>))}

InitFmt ==
    /\ fPc = "input"
    /\ fAst \in BoundedRegexAstDistribution(Symbols, TreeBudget + 1) \cup TestAsts
    /\ fText = <<>>
    /\ EqIdle
    /\ MatchIdle
    /\ ParseIdle
    /\ GenIdle
    /\ AlphaIdle
    /\ QuizIdle
    /\ CmdIdle
    /\ BotIdle
    /\ NfaIdle
    /\ PartIdle

\* format!("{}", fAst)
CallFmt ==
    /\ fPc = "input"
    /\ fText' = Fmt(fAst)
    /\ fPc' = "formatted"
    /\ UNCHANGED <<fAst, eqVars, mVars, pVars, gVars, aVars, qVars, cVars, bVars, nVars, tVars>>

NextFmt == CallFmt

SpecFmt == InitFmt /\ [][NextFmt]_vars

RECURSIVE Render(_)
RECURSIVE RenderJoined(_, _, _)
\* the renderings of the first n of xs, sep between neighbours
RenderJoined(xs, n, sep) ==
    IF n = 0 THEN <<>>
    ELSE IF n = 1 THEN Render(xs[1])
    ELSE RenderJoined(xs, n - 1, sep) \o sep \o Render(xs[n])

\* the fully parenthesized rendering: ε, the lower-case letter, (x)*, (xy..), (x|y|..)
Render(x) ==
    IF x.k = "Epsilon" THEN <<"ε">>
    ELSE IF x.k = "Literal"
         THEN <<CASE x.s = "A" -> "a" [] x.s = "B" -> "b" [] x.s = "C" -> "c"
                  [] x.s = "D" -> "d" [] x.s = "E" -> "e" [] x.s = "F" -> "f"
                  [] x.s = "G" -> "g" [] x.s = "H" -> "h" [] x.s = "I" -> "i"
                  [] x.s = "J" -> "j">>
    ELSE IF x.k = "Star" THEN <<"(">> \o Render(x.c[1]) \o <<")", "*">>
    ELSE <<"(">>
         \o RenderJoined(x.c, Len(x.c), IF x.k = "Alternation" THEN <<"|">> ELSE <<>>)
         \o <<")">>

\* C14: the rendering is fully parenthesized: ε, the lower-case letter, (x)*
\* for Star, the children joined with nothing in one pair of parentheses for
\* Concatenation and joined with | in one pair for Alternation.
C14_RenderingFullyParenthesized ==
    fPc = "formatted" =>
        /\ fText = Render(fAst)
        /\ (fAst = Star(Alternation(<<Literal("A"),
                                      Concatenation(<<Literal("B"), Literal("C")>>)>>))
               => fText = <<"(", "(", "a", "|", "(", "b", "c", ")", ")", ")", "*">>)
        /\ (fAst = Concatenation(<<Literal("A"), Literal("B"), Epsilon>>)
               => fText = <<"(", "a", "b", "ε", ")">>)

C14_Witness ==
    /\ fPc = "formatted"
    /\ fAst = Star(Alternation(<<Literal("A"), Literal("G")>>))
    /\ fText = <<"(", "(", "a", "|", "g", ")", ")", "*">>

(***************************************************************************)
(* SpecGen: randomly_generate (generate_quiz.rs:222-232), the rejection    *)
(* loop around generate_ast_smaller_than and good_as_a_quiz_problem, and   *)
(* parse_str on the rendering of the AST it returns.  Every random draw is *)
(* a nondeterministic choice among the values of positive probability.     *)
(***************************************************************************)
\* largest difficulty drawn
GenDifficulty == 2
\* cap on the tree size handed to the sampler
GenBudget == 5
\* cap on the number of words one estimate draws
SampleBound == 5
\* cap on the length of a drawn word
GenWordLen == 2

MAX_QUIZ_TREE_SIZE == 12
sample_size == 1000
word_length_trials == 15

\* alphabets_used_with that takes one symbol more
alphabets_used_with_one_more(diff) == {Alphabet[i] : i \in 1..Min(diff + 1, Len(Alphabet))}

\* alphabets_used_with: the first diff symbols in canonical order
alphabets_used_with(diff) == {Alphabet[i] : i \in 1..Min(diff, Len(Alphabet))}

\* word_distribution: Binomial(15, 0.3) many letters, each any of alphabets
word_distribution(alphabets) ==
    WordsOver(alphabets, Min(word_length_trials, GenWordLen))

\* regex_ast.compile_to_string_regex(): the compiled pattern of the direct
\* matcher, anchored at both ends as in RegexAst::matches
compile_to_string_regex(regex_ast) ==
    RegexNew(<<"^", "(">> \o compile_to_epsilonless_regex(regex_ast) \o <<")", "$">>)

\* Alphabet::slice_to_plain_string: the letters of the word
slice_to_plain_string(w) == WordText(w)

\* the number of words an estimate draws in the model
SampleSize == Min(sample_size, SampleBound)

\* good_as_a_quiz_problem with the two ends of the band allowed
good_as_a_quiz_problem_inclusive(matched, size) ==
    2 * size <= 10 * matched /\ 10 * matched <= 8 * size

\* good_as_a_quiz_problem that lets no estimate through
good_as_a_quiz_problem_never(matched, size) == FALSE

\* good_as_a_quiz_problem on the estimate matched / size:
\* 0.2 < estimate && estimate < 0.8
good_as_a_quiz_problem(matched, size) ==
    2 * size < 10 * matched /\ 10 * matched < 8 * size

\* generate_ast_smaller_than that hands the sampler a budget one larger
generate_ast_one_larger(alphabets, tree_size) ==
    BoundedRegexAstDistribution(alphabets, tree_size + 1)

\* generate_ast_smaller_than(alphabets, tree_size)
generate_ast_smaller_than(alphabets, tree_size) ==
    BoundedRegexAstDistribution(alphabets, tree_size)

\* what generate_ast_smaller_than(&alphabets, MAX_QUIZ_TREE_SIZE) can give for
\* each difficulty, the tree size capped at GenBudget
Candidates ==
    [diff \in 1..GenDifficulty |->
        generate_ast_smaller_than(alphabets_used_with(diff),
                                  Min(MAX_QUIZ_TREE_SIZE, GenBudget))]

InitGen ==
    /\ gPc = "sample"
    /\ gDiff \in 1..GenDifficulty
    /\ gAst = Epsilon
    /\ gDrawn = 0
    /\ gMatched = 0
    /\ gRound = ParseErr
    /\ EqIdle
    /\ MatchIdle
    /\ ParseIdle
    /\ AlphaIdle
    /\ FmtIdle
    /\ QuizIdle
    /\ CmdIdle
    /\ BotIdle
    /\ NfaIdle
    /\ PartIdle

\* let ast = generate_ast_smaller_than(&alphabets, MAX_QUIZ_TREE_SIZE)
GenerateAst ==
    /\ gPc = "sample"
    /\ gAst' \in Candidates[gDiff]
    /\ gDrawn' = 0
    /\ gMatched' = 0
    /\ gPc' = "estimate"
    /\ UNCHANGED <<gDiff, gRound, eqVars, mVars, pVars, aVars, fVars, qVars, cVars, bVars, nVars, tVars>>

\* estimate_acceptance_probability: one more word is drawn and matched
DrawWord ==
    /\ gPc = "estimate"
    /\ gDrawn < SampleSize
    /\ LET compiled_ast == compile_to_string_regex(gAst)
       IN \E w \in word_distribution(alphabets_used_with(gDiff)) :
             gMatched' = gMatched
                         + (IF is_match(compiled_ast, slice_to_plain_string(w)) THEN 1 ELSE 0)
    /\ gDrawn' = gDrawn + 1
    /\ UNCHANGED <<gPc, gDiff, gAst, gRound, eqVars, mVars, pVars, aVars, fVars, qVars, cVars, bVars, nVars, tVars>>

\* if good_as_a_quiz_problem(&alphabets, &ast) { return ast; }
ReturnAst ==
    /\ gPc = "estimate"
    /\ gDrawn = SampleSize
    /\ good_as_a_quiz_problem(gMatched, SampleSize)
    /\ gPc' = "returned"
    /\ UNCHANGED <<gDiff, gAst, gDrawn, gMatched, gRound, eqVars, mVars, pVars, aVars, fVars, qVars, cVars, bVars, nVars, tVars>>

\* the candidate, a local of the loop body, is dropped and the loop samples again
RejectAst ==
    /\ gPc = "estimate"
    /\ gDrawn = SampleSize
    /\ ~good_as_a_quiz_problem(gMatched, SampleSize)
    /\ gPc' = "sample"
    /\ gAst' = Epsilon
    /\ gDrawn' = 0
    /\ gMatched' = 0
    /\ UNCHANGED <<gDiff, gRound, eqVars, mVars, pVars, aVars, fVars, qVars, cVars, bVars, nVars, tVars>>

\* RegexAst::parse_str(&format!("{}", ast)) on the returned AST
ParseGenerated ==
    /\ gPc = "returned"
    /\ gRound' = parse_str(Fmt(gAst))
    /\ gPc' = "round"
    /\ UNCHANGED <<gDiff, gAst, gDrawn, gMatched, eqVars, mVars, pVars, aVars, fVars, qVars, cVars, bVars, nVars, tVars>>

NextGen == GenerateAst \/ DrawWord \/ ReturnAst \/ RejectAst \/ ParseGenerated

SpecGen == InitGen /\ [][NextGen]_vars

\* C8: parsing the rendering of an AST that randomly_generate returned
\* succeeds and gives an AST that renders to the same text.
C8_GeneratedRoundTrip ==
    gPc = "round" => (gRound.tag = "Ok" /\ Fmt(gRound.ast) = Fmt(gAst))

(***************************************************************************)
(* SpecGenFair: randomly_generate under a fair random source.  The loop    *)
(* keeps running, and a draw of positive probability that is possible      *)
(* again and again is made in the end: here the draws that sample the      *)
(* candidate "a" and that lead its estimate to 2 matches.                  *)
(***************************************************************************)
\* the draw of generate_ast_smaller_than that gives ast
SampleCandidate(ast) == gPc = "sample" /\ gAst' = ast /\ GenerateAst

\* a step of DrawWord, told by what it does to the two counters: a step of
\* NextGen is one of these exactly when it is a step of DrawWord, and one is
\* possible exactly when DrawWord is (some word can always be drawn)
DrawStep ==
    /\ gPc = "estimate"
    /\ gDrawn < SampleSize
    /\ gDrawn' = gDrawn + 1
    /\ gMatched' \in {gMatched, gMatched + 1}
    /\ UNCHANGED <<gPc, gDiff, gAst, gRound, eqVars, mVars, pVars, aVars, fVars, qVars, cVars, bVars, nVars, tVars>>

\* the draw of a word, the drawn-th of the estimate of ast, that takes the
\* count of matches from matched to next
DrawFrom(ast, drawn, matched, next) ==
    /\ gPc = "estimate"
    /\ gAst = ast
    /\ gDrawn = drawn
    /\ gMatched = matched
    /\ gMatched' = next
    /\ DrawStep

\* the loop of randomly_generate is sequential code: it makes its next step
LoopRuns ==
    /\ WF_vars(GenerateAst)
    /\ WF_vars(DrawStep)
    /\ WF_vars(ReturnAst)
    /\ WF_vars(RejectAst)

FairDraws ==
    /\ SF_vars(SampleCandidate(Literal("A")))
    /\ \A k \in 0..(SampleSize - 1) :
          SF_vars(DrawFrom(Literal("A"), k, Min(k, 2), Min(k + 1, 2)))

SpecGenFair == InitGen /\ [][NextGen]_vars /\ LoopRuns /\ FairDraws

\* C19: under a fair random source randomly_generate returns in the end, for
\* each difficulty: some candidate the loop can sample has an estimate it can
\* reach inside the band.
C19_EventuallyReturns == <>(gPc = "returned")

C19_Witness ==
    /\ gPc = "returned"
    /\ gAst = Literal("A")
    /\ gMatched = 2
    /\ gDiff = GenDifficulty

RECURSIVE LiteralSymbols(_)
\* the symbols of the Literal nodes of an AST
LiteralSymbols(ast) ==
    IF ast.k = "Literal" THEN {ast.s}
    ELSE UNION {LiteralSymbols(ast.c[i]) : i \in 1..Len(ast.c)}

\* C16: every Literal of a candidate, and so of the AST randomly_generate
\* returns for difficulty d, is one of the first d symbols in canonical order.
C16_GeneratedWithinDifficulty ==
    gPc \in {"estimate", "returned", "round"} =>
        \A x \in LiteralSymbols(gAst) : \E i \in 1..gDiff : x = Alphabet[i]

C16_Witness ==
    /\ gPc = "returned"
    /\ gDiff = 2
    /\ LiteralSymbols(gAst) = {"A", "B"}

\* the ASTs the sampler can give for each max_tree_size of the model
SampledWith ==
    [n \in 1..Min(MAX_QUIZ_TREE_SIZE, GenBudget) |->
        BoundedRegexAstDistribution({Alphabet[i] : i \in 1..GenDifficulty}, n)]

\* C17: an AST sampled with max_tree_size = n has at most n nodes; the AST
\* randomly_generate returns has at most MAX_QUIZ_TREE_SIZE nodes.
C17_SampledSizeBounded ==
    gPc \in {"estimate", "returned", "round"} =>
        /\ TreeSize(gAst) <= MAX_QUIZ_TREE_SIZE
        /\ TreeSize(gAst) <= Min(MAX_QUIZ_TREE_SIZE, GenBudget)
        /\ \A n \in DOMAIN SampledWith : gAst \in SampledWith[n] => TreeSize(gAst) <= n

C17_Witness ==
    /\ gPc = "returned"
    /\ TreeSize(gAst) = Min(MAX_QUIZ_TREE_SIZE, GenBudget)
    /\ gAst.k = "Alternation"

\* C18: the loop returns the candidate exactly when its estimate, matched out
\* of the words drawn, lies strictly between 0.2 and 0.8; otherwise (on 0.2 and
\* 0.8 too) the candidate is dropped and the loop samples again.
C18_ReturnsIffStrictlyInBand ==
    [][/\ (gPc = "estimate" /\ gDrawn = SampleSize) =>
            /\ (gPc' = "returned") <=> (gDrawn < 5 * gMatched /\ 5 * gMatched < 4 * gDrawn)
            /\ gPc' \in {"returned", "sample"}
            /\ gPc' = "returned" => gAst' = gAst
       /\ (gPc' = "returned" /\ gPc # "returned") => (gPc = "estimate" /\ gDrawn = SampleSize)
      ]_vars

C18_Witness ==
    /\ gPc = "returned"
    /\ gDrawn = SampleSize
    /\ gDrawn < 5 * gMatched
    /\ 5 * gMatched < 4 * gDrawn
    /\ gAst.k = "Star"

(***************************************************************************)
(* SpecQuiz: a Quiz (bot.rs:67-72) of some difficulty, and the calls of    *)
(* Quiz::query and Quiz::inspect on it.                                    *)
(***************************************************************************)
\* the largest difficulty of the quizzes of the model
QuizDifficulty == 2
\* the tree size of their answer regexes
QuizBudget == 2
\* longest input handed to query or inspect
MaxQuery == 2
\* the entries the history has room for
MaxHistory == 2

\* what query and inspect return: Ok(Yes | No), Ok(Accepted | WrongAnswer),
\* the error of validate with its two lists, another error, or a panic
QuizOut(tag) == [tag |-> tag, invalid |-> <<>>, domain |-> <<>>]
DomainError(invalid, domain) == [tag |-> "DomainError", invalid |-> invalid, domain |-> domain]

\* a validate whose domain is the whole alphabet
validate_any_size(size, input) == QuizOut("Ok")

\* Quiz::validate
validate(size, input) ==
    LET domain == [i \in 1..Min(size, Len(Alphabet)) |-> Alphabet[i]]
        out_of_domain(c) == c \notin Range(domain)
        invalid == SelectSeq(input, out_of_domain)
    IN IF invalid = <<>> THEN QuizOut("Ok") ELSE DomainError(invalid, domain)

\* the input r#""""#: two double quotes
EmptyWordInput == <<"\"", "\"">>

\* an insert that appends whatever the history holds
or_insert_appends(history, input, outcome) == Append(history, <<input, outcome>>)

\* self.history.entry(input).or_insert(outcome)
or_insert(history, input, outcome) ==
    IF \E i \in 1..Len(history) : history[i][1] = input THEN history
    ELSE Append(history, <<input, outcome>>)

\* Quiz::query: what it returns (out) and the history it leaves
query(size, regex, history, input) ==
    LET answer(matched) ==
            [out |-> QuizOut(IF matched THEN "Yes" ELSE "No"),
             history |-> or_insert(history, input, IF matched THEN "Yes" ELSE "No")]
        validated(alphabets, v) ==
            IF v.tag # "Ok" THEN [out |-> v, history |-> history]
            ELSE answer(matches(regex, alphabets))
        converted(r) ==
            IF ~r.ok THEN [out |-> QuizOut("Err"), history |-> history]
            ELSE validated(r.v, validate(size, r.v))
    IN converted(IF input = EmptyWordInput THEN [ok |-> TRUE, v |-> <<>>]
                 ELSE vec_from_str(input))

RECURSIVE Orders(_)
\* the orders in which iterating a HashSet can give its elements
Orders(S) ==
    IF S = {} THEN {<<>>} ELSE UNION {{<<x>> \o rest : rest \in Orders(S \ {x})} : x \in S}

\* Quiz::inspect; alphabets is ast.used_alphabets() in the order the iteration
\* of the HashSet gave
inspect(size, regex, input, alphabets) ==
    LET validated(ast, v) ==
            IF v.tag # "Ok" THEN v
            ELSE QuizOut(IF equivalent_to(regex, ast) THEN "AC" ELSE "WA")
        parsed(r) ==
            CASE r.tag = "Panic" -> QuizOut("Panic")
              [] r.tag = "Err" -> QuizOut("Err")
              [] OTHER -> validated(r.ast, validate(size, alphabets))
    IN parsed(parse_str(input))

\* the answer regexes a quiz of difficulty size can have: what the generator
\* draws, less the ASTs no estimate lets through (all words or none accepted)
QuizAsts(size) ==
    {ast \in generate_ast_smaller_than(alphabets_used_with(size), QuizBudget) :
        /\ \E w \in WordsOver(alphabets_used_with(size), QuizBudget) : matches(ast, w) = TRUE
        /\ \E w \in WordsOver(alphabets_used_with(size), QuizBudget) : matches(ast, w) = FALSE}

\* the characters of the inputs: the letters of the domain of the largest
\* quiz and the next one, a character that is no Alphabet, and the star
QuizChars ==
    {LowerCase[i] : i \in 1..Min(QuizDifficulty + 1, Len(LowerCase))} \cup {"z", "*"}

QuizInputs == (UNION {[1..n -> QuizChars] : n \in 0..MaxQuery}) \cup {EmptyWordInput}

\* Quiz::new_with_difficulty
InitQuiz ==
    /\ qPc = "ready"
    /\ qSize \in 1..QuizDifficulty
    /\ qRegex \in QuizAsts(qSize)
    /\ qHistory = <<>>
    /\ qOp = "none"
    /\ qInput = <<>>
    /\ qOut = QuizOut("None")
    /\ qParticipants = {}
    /\ qUser = 0
    /\ EqIdle
    /\ MatchIdle
    /\ ParseIdle
    /\ GenIdle
    /\ AlphaIdle
    /\ FmtIdle
    /\ CmdIdle
    /\ BotIdle
    /\ NfaIdle
    /\ PartIdle

\* quiz.query(input)
CallQuery ==
    /\ qPc \in {"ready", "returned"}
    /\ Len(qHistory) < MaxHistory
    /\ \E input \in QuizInputs :
          LET r == query(qSize, qRegex, qHistory, input)
          IN /\ qInput' = input
             /\ qOut' = r.out
             /\ qHistory' = r.history
    /\ qOp' = "query"
    /\ qPc' = "returned"
    /\ UNCHANGED <<qSize, qRegex, qParticipants, qUser, eqVars, mVars, pVars, gVars, aVars, fVars, cVars, bVars, nVars, tVars>>

\* quiz.inspect(input)
CallInspect ==
    /\ qPc \in {"ready", "returned"}
    /\ \E input \in QuizInputs :
          LET r == parse_str(input)
          IN \E alphabets \in (IF r.tag = "Ok" THEN Orders(used_alphabets(r.ast)) ELSE {<<>>}) :
                /\ qInput' = input
                /\ qOut' = inspect(qSize, qRegex, input, alphabets)
    /\ qOp' = "inspect"
    /\ qPc' = "returned"
    /\ UNCHANGED <<qSize, qRegex, qHistory, qParticipants, qUser, eqVars, mVars, pVars, gVars, aVars, fVars, cVars, bVars, nVars, tVars>>

NextQuiz == CallQuery \/ CallInspect

SpecQuiz == InitQuiz /\ [][NextQuiz]_vars

\* the symbols an input names: its letters, whatever their case
LettersOf(input) ==
    {Alphabet[i] : i \in {j \in 1..Len(Alphabet) :
                             \E n \in 1..Len(input) : input[n] \in {LowerCase[j], Alphabet[j]}}}

\* the first d symbols in canonical order
FirstSymbols(d) == [i \in 1..d |-> Alphabet[i]]

\* whether the call that just returned was given a proper argument: for query a
\* word over the ten letters (or the two quotes for the empty word), for
\* inspect a text the grammar reads
ProperArgument(op, input) ==
    IF op = "query"
    THEN input = EmptyWordInput
         \/ \A n \in 1..Len(input) : \E j \in 1..Len(Alphabet) : input[n] \in {LowerCase[j], Alphabet[j]}
    ELSE RefExpr(input).ok

WordOfInput(input) ==
    IF input = EmptyWordInput THEN <<>>
    ELSE [n \in 1..Len(input) |->
            Alphabet[CHOOSE j \in 1..Len(Alphabet) : input[n] \in {LowerCase[j], Alphabet[j]}]]

\* Yes if the language of the regex has the word, No otherwise
OutcomeOf(regex, input) == IF InLang(regex, WordOfInput(input)) THEN "Yes" ELSE "No"

\* C25: the history holds the distinct inputs whose query succeeded, in the
\* order of their first successful query, each with Yes if the answer regex
\* accepts the word and No otherwise: a successful query of a new input appends
\* the input with that outcome, any other call leaves the history as it was,
\* and the answer regex and the difficulty never change.
C25_HistoryOfSuccessfulQueries ==
    [][/\ qRegex' = qRegex
       /\ qSize' = qSize
       /\ (qPc' = "returned" /\ qOp' = "query") =>
             LET succeeded == qOut'.tag \in {"Yes", "No"}
                 asked == \E i \in 1..Len(qHistory) : qHistory[i][1] = qInput'
             IN /\ succeeded => qOut'.tag = OutcomeOf(qRegex, qInput')
                /\ (succeeded /\ ~ asked) =>
                      qHistory' = Append(qHistory, <<qInput', OutcomeOf(qRegex, qInput')>>)
                /\ ~ (succeeded /\ ~ asked) => qHistory' = qHistory
       /\ (qPc' = "returned" /\ qOp' # "query") => qHistory' = qHistory]_vars

C25_Witness ==
    /\ qPc = "returned"
    /\ qOp = "query"
    /\ qRegex = Literal("A")
    /\ qHistory = << <<EmptyWordInput, "No">>, << <<"a">>, "Yes">> >>
    /\ qInput = <<"a">>

(***************************************************************************)
(* commands::generate_regex: the generation task, the oneshot channel and  *)
(* the Timeout around the receiver.                                        *)
(*                                                                         *)
(* The task is `async move { Quiz::new_with_difficulty(..); tx.send(..) }`:*)
(* it holds no .await, so one poll runs the whole generation and keeps the *)
(* worker thread that polls it until the quiz is sent.  A caller is polled *)
(* (to take the quiz or to see its deadline elapsed) by a worker that is   *)
(* not inside such a poll.  The clock is wall-clock time: it advances      *)
(* whatever the workers do.                                                *)
(***************************************************************************)

\* Duration::from_millis(1000)
TimeoutMs == 1000

\* Step of the clock.
TickMs == 500

Running == {i \in Calls : cTask[i] = "running"}

\* A worker thread of the runtime is not inside the poll of a generation task.
FreeWorker == Cardinality(Running) < NumWorkers

\* timeout(..).await is ready: the receiver holds the quiz or the deadline
\* has elapsed.
CallerReady(i) ==
    /\ cPc[i] = "waiting"
    /\ (cChan[i] = "quiz" \/ cTimer[i] >= TimeoutMs)

InitCmd ==
    /\ EqIdle
    /\ MatchIdle
    /\ ParseIdle
    /\ GenIdle
    /\ AlphaIdle
    /\ FmtIdle
    /\ QuizIdle
    /\ CmdIdle
    /\ BotIdle
    /\ NfaIdle
    /\ PartIdle

\* generate_regex up to its first pending await: the channel is created, the
\* task is spawned, the Timeout starts.
CallGenerateRegex(i) ==
    /\ cPc[i] = "idle"
    /\ FreeWorker
    /\ cPc' = [cPc EXCEPT ![i] = "waiting"]
    /\ cTask' = [cTask EXCEPT ![i] = "spawned"]
    /\ cChan' = [cChan EXCEPT ![i] = "open"]
    /\ cTimer' = [cTimer EXCEPT ![i] = 0]
    /\ UNCHANGED <<cRes, eqVars, mVars, pVars, gVars, aVars, fVars, qVars, bVars, nVars, tVars>>

\* A worker starts to poll the spawned task: Quiz::new_with_difficulty runs.
PollTask(i) ==
    /\ cTask[i] = "spawned"
    /\ FreeWorker
    /\ cTask' = [cTask EXCEPT ![i] = "running"]
    /\ UNCHANGED <<cPc, cChan, cTimer, cRes, eqVars, mVars, pVars, gVars, aVars, fVars, qVars, bVars, nVars, tVars>>

\* The generation ends and tx.send(quiz) reaches the live receiver.
SendQuiz(i) ==
    /\ cTask[i] = "running"
    /\ cChan[i] = "open"
    /\ cTask' = [cTask EXCEPT ![i] = "done"]
    /\ cChan' = [cChan EXCEPT ![i] = "quiz"]
    /\ UNCHANGED <<cPc, cTimer, cRes, eqVars, mVars, pVars, gVars, aVars, fVars, qVars, bVars, nVars, tVars>>

\* The generation ends after the receiver was dropped: `let _ = tx.send(quiz)`
\* ignores the failure and the quiz is dropped with the task.
SendIgnored(i) ==
    /\ cTask[i] = "running"
    /\ cChan[i] = "dropped"
    /\ cTask' = [cTask EXCEPT ![i] = "done"]
    /\ UNCHANGED <<cPc, cChan, cTimer, cRes, eqVars, mVars, pVars, gVars, aVars, fVars, qVars, bVars, nVars, tVars>>

\* Ok(quiz): Timeout polls the receiver first, so a quiz that is there is
\* returned whatever the clock says.
ReceiveQuiz(i) ==
    /\ cPc[i] = "waiting"
    /\ cChan[i] = "quiz"
    /\ FreeWorker
    /\ cPc' = [cPc EXCEPT ![i] = "returned"]
    /\ cRes' = [cRes EXCEPT ![i] = "Quiz"]
    /\ cChan' = [cChan EXCEPT ![i] = "dropped"]
    /\ UNCHANGED <<cTask, cTimer, eqVars, mVars, pVars, gVars, aVars, fVars, qVars, bVars, nVars, tVars>>

\* Err(_): the deadline has elapsed and no quiz is there; the receiver is
\* dropped with the Timeout.
TimeLimitExceeded(i) ==
    /\ cPc[i] = "waiting"
    /\ cChan[i] = "open"
    /\ cTimer[i] >= TimeoutMs
    /\ FreeWorker
    /\ cPc' = [cPc EXCEPT ![i] = "returned"]
    /\ cRes' = [cRes EXCEPT ![i] = "Timeout"]
    /\ cChan' = [cChan EXCEPT ![i] = "dropped"]
    /\ UNCHANGED <<cTask, cTimer, eqVars, mVars, pVars, gVars, aVars, fVars, qVars, bVars, nVars, tVars>>

\* The clock advances by one step.  A ready caller is polled within the step
\* when a worker is free, so time passes over a ready caller only while every
\* worker is inside a generation.
Tick ==
    /\ \E i \in Calls : cPc[i] = "waiting" /\ cTimer[i] < TimeoutMs + TickMs
    /\ ~ (FreeWorker /\ \E i \in Calls : CallerReady(i))
    /\ cTimer' = [i \in Calls |->
                    IF cPc[i] = "waiting" /\ cTimer[i] < TimeoutMs + TickMs
                    THEN cTimer[i] + TickMs
                    ELSE cTimer[i]]
    /\ UNCHANGED <<cPc, cTask, cChan, cRes, eqVars, mVars, pVars, gVars, aVars, fVars, qVars, bVars, nVars, tVars>>

NextCmd ==
    \/ \E i \in Calls : CallGenerateRegex(i)
    \/ \E i \in Calls : PollTask(i)
    \/ \E i \in Calls : SendQuiz(i)
    \/ \E i \in Calls : SendIgnored(i)
    \/ \E i \in Calls : ReceiveQuiz(i)
    \/ \E i \in Calls : TimeLimitExceeded(i)
    \/ Tick

SpecCmd == InitCmd /\ [][NextCmd]_vars

\* The call has lasted a whole step of the clock beyond the 1000 ms.
Late(i) == cTimer[i] >= TimeoutMs + TickMs

\* C20: generate_regex returns with the quiz when the task delivers it before
\* the timer fires and with the Timeout error otherwise, and it never waits
\* for the generation task beyond the 1000 ms: no call, waiting or returned,
\* has lasted beyond the timeout, and a Timeout result means that the deadline
\* had elapsed and the task had delivered nothing.
C20_ReturnsWithinTimeout ==
    \A i \in Calls :
        /\ cPc[i] \in {"waiting", "returned"} => ~ Late(i)
        /\ cRes[i] = "Quiz" => cTask[i] = "done"
        /\ cRes[i] = "Timeout" => cTimer[i] >= TimeoutMs

\* A caller kept waiting beyond the timeout while every worker thread is
\* inside a generation.
C20_Starved ==
    \E i \in Calls :
        /\ cPc[i] = "waiting"
        /\ Late(i)
        /\ ~ FreeWorker

(***************************************************************************)
(* main.rs, Handler::interaction_create: the handlers of start, query,     *)
(* guess, summary, join and give-up on one channel.  Each handler is a     *)
(* spawned task; each statement `CONTAINER.lock().unwrap()...;` holds the  *)
(* Mutex to its end and is one step, and the tasks interleave between      *)
(* their statements.                                                       *)
(***************************************************************************)

\* The quizzes start creates before the model stops it.
MaxQuizzes == 2

\* The answers a quiz can have, the texts handed to query and to guess.
BotAsts == {Literal("A"), Star(Literal("A"))}
BotQueryInputs == {EmptyWordInput, <<"a">>, <<"z">>}
BotGuessInputs == {<<"a">>, <<"a", "*">>, <<"(">>}

\* Some(Quiz::new_with_difficulty(difficulty)); solved and abandoned record
\* that a participant's guess was accepted on the instance, and that its last
\* participant gave up
NewQuiz(id, regex) ==
    [st |-> "some", id |-> id, regex |-> regex, history |-> <<>>, participants |-> {},
     solved |-> FALSE, abandoned |-> FALSE]

\* Quiz::is_participant under channel_map.get_mut(..).map_or_else(|| false, ..)
is_joined(entry, user) == entry.st = "some" /\ user \in entry.participants

\* a register that accepts a user twice
register_twice(participants, user) ==
    [ok |-> TRUE, participants |-> participants \cup {user}]

\* Quiz::register
register(participants, user) ==
    IF user \in participants
    THEN [ok |-> FALSE, participants |-> participants]
    ELSE [ok |-> TRUE, participants |-> participants \cup {user}]

\* an accepts_give_up that always reveals the answer
accepts_give_up_reveals(participants, user) ==
    IF user \notin participants
    THEN [ok |-> FALSE, participants |-> participants, right |-> FALSE]
    ELSE [ok |-> TRUE, participants |-> participants \ {user}, right |-> TRUE]

\* Quiz::accepts_give_up; right: it answers Either::Right, the answer revealed
accepts_give_up(participants, user) ==
    IF user \notin participants
    THEN [ok |-> FALSE, participants |-> participants, right |-> FALSE]
    ELSE [ok |-> TRUE, participants |-> participants \ {user},
          right |-> participants \ {user} = {}]

\* quiz.guess(&valid_input): whether the guess is equivalent to the answer
guess(regex, ast) == equivalent_to(regex, ast)

\* the input of query read by the handler
BotWordOf ==
    [input \in BotQueryInputs |->
        IF input = EmptyWordInput THEN [ok |-> TRUE, v |-> <<>>] ELSE vec_from_str(input)]

\* quiz.query(&valid_input) on each answer and input
BotMatches ==
    [regex \in BotAsts, input \in BotQueryInputs |->
        IF BotWordOf[input].ok THEN matches(regex, BotWordOf[input].v) ELSE FALSE]

\* RegexAst::parse_str(&original_input) and quiz.guess on each answer and text
BotGuess ==
    [regex \in BotAsts, input \in BotGuessInputs |->
        LET verdict(r) ==
                CASE r.tag = "Panic" -> "Panic"
                  [] r.tag = "Err" -> "Err"
                  [] OTHER -> IF guess(regex, r.ast) THEN "AC" ELSE "WA"
        IN verdict(parse_str(input))]

\* a task slot a new interaction can take
Free(t) == bPc[t] \in {"idle", "done", "panicked"}

\* the locals of task t after a step
Step(t, pc, user, arg, reply, seen) ==
    /\ bPc' = [bPc EXCEPT ![t] = pc]
    /\ bUser' = [bUser EXCEPT ![t] = user]
    /\ bArg' = [bArg EXCEPT ![t] = arg]
    /\ bReply' = [bReply EXCEPT ![t] = reply]
    /\ bSeen' = [bSeen EXCEPT ![t] = seen]

\* the task ends: its reply stays, its other locals are dropped
Finish(t, user, reply) == Step(t, "done", user, <<>>, reply, 0)

\* the task panics
Panics(t, user) == Step(t, "panicked", user, <<>>, "None", 0)

InitBot ==
    /\ EqIdle
    /\ MatchIdle
    /\ ParseIdle
    /\ GenIdle
    /\ AlphaIdle
    /\ FmtIdle
    /\ QuizIdle
    /\ CmdIdle
    /\ BotIdle
    /\ NfaIdle
    /\ PartIdle

\* any handler on a poisoned Mutex: CONTAINER.lock().unwrap() panics
LockUnwrapPanics(t) ==
    /\ Free(t)
    /\ bPoisoned
    /\ \E user \in Users : Panics(t, user)
    /\ UNCHANGED <<bMap, bPoisoned, bNextId, eqVars, mVars, pVars, gVars, aVars, fVars, qVars, cVars, nVars, tVars>>

\* start: the entry becomes Some(new quiz), whatever it was
Start(t) ==
    /\ Free(t)
    /\ ~ bPoisoned
    /\ bNextId <= MaxQuizzes
    /\ \E user \in Users, regex \in BotAsts :
          /\ bMap' = NewQuiz(bNextId, regex)
          /\ Finish(t, user, "Started")
    /\ bNextId' = bNextId + 1
    /\ UNCHANGED <<bPoisoned, eqVars, mVars, pVars, gVars, aVars, fVars, qVars, cVars, nVars, tVars>>

\* query, to the end of its input's conversion: the membership check under the
\* lock, then the word
QueryCheck(t) ==
    /\ Free(t)
    /\ ~ bPoisoned
    /\ \E user \in Users, input \in BotQueryInputs :
          IF ~ is_joined(bMap, user) THEN Finish(t, user, "JoinFirst")
          ELSE IF ~ BotWordOf[input].ok THEN Finish(t, user, "Error")
          ELSE Step(t, "query_checked", user, input, "None", 0)
    /\ UNCHANGED <<bMap, bPoisoned, bNextId, eqVars, mVars, pVars, gVars, aVars, fVars, qVars, cVars, nVars, tVars>>

\* query, its second statement under the lock: quiz.query records the outcome
\* in the quiz that is there now
QueryRecord(t) ==
    /\ bPc[t] = "query_checked"
    /\ IF bMap.st = "some"
       THEN LET outcome == IF BotMatches[bMap.regex, bArg[t]] THEN "Yes" ELSE "No"
            IN /\ bMap' = [bMap EXCEPT !.history = or_insert(@, bArg[t], outcome)]
               /\ Finish(t, bUser[t], outcome)
       ELSE /\ UNCHANGED bMap
            /\ Finish(t, bUser[t], "NotStarted")
    /\ UNCHANGED <<bPoisoned, bNextId, eqVars, mVars, pVars, gVars, aVars, fVars, qVars, cVars, nVars, tVars>>

\* RegexAst::parse_str(&original_input) on each text of guess
BotParse == [input \in BotGuessInputs |-> parse_str(input)]

\* guess, to the end of its input's parsing: the membership check under the
\* lock, then parse_str outside it
GuessCheck(t) ==
    /\ Free(t)
    /\ ~ bPoisoned
    /\ \E user \in Users, input \in BotGuessInputs :
          IF ~ is_joined(bMap, user) THEN Finish(t, user, "JoinFirst")
          ELSE IF BotParse[input].tag = "Err" THEN Finish(t, user, "Error")
          ELSE IF BotParse[input].tag = "Panic" THEN Panics(t, user)
          ELSE Step(t, "guess_checked", user, input, "None", 0)
    /\ UNCHANGED <<bMap, bPoisoned, bNextId, eqVars, mVars, pVars, gVars, aVars, fVars, qVars, cVars, nVars, tVars>>

\* guess, its second statement under the lock: quiz.guess on the quiz that is
\* there now
GuessEvaluate(t) ==
    /\ bPc[t] = "guess_checked"
    /\ IF bMap.st = "some"
       THEN IF BotGuess[bMap.regex, bArg[t]] = "AC"
            THEN /\ bMap' = [bMap EXCEPT !.solved = @ \/ bUser[t] \in bMap.participants]
                 /\ Step(t, "guess_accepted", bUser[t], <<>>, "AC", bMap.id)
            ELSE /\ UNCHANGED bMap
                 /\ Finish(t, bUser[t], "WA")
       ELSE /\ UNCHANGED bMap
            /\ Finish(t, bUser[t], "NotStarted")
    /\ UNCHANGED <<bPoisoned, bNextId, eqVars, mVars, pVars, gVars, aVars, fVars, qVars, cVars, nVars, tVars>>

\* if is_accepted: channel_map.entry(channel_id).and_modify(|quiz| *quiz = None)
GuessReset(t) ==
    /\ bPc[t] = "guess_accepted"
    /\ bMap' = IF bMap.st = "absent" THEN bMap ELSE NoQuiz
    /\ Finish(t, bUser[t], bReply[t])
    /\ UNCHANGED <<bPoisoned, bNextId, eqVars, mVars, pVars, gVars, aVars, fVars, qVars, cVars, nVars, tVars>>

\* summary: channel_map.get(&channel_id).unwrap() panics on a channel with no
\* entry while the guard of the Mutex is alive, which poisons the Mutex
Summary(t) ==
    /\ Free(t)
    /\ ~ bPoisoned
    /\ \E user \in Users :
          IF bMap.st = "absent"
          THEN /\ bPoisoned' = TRUE
               /\ Panics(t, user)
          ELSE /\ bPoisoned' = bPoisoned
               /\ Finish(t, user, IF bMap.st = "some" THEN "History" ELSE "NotStarted")
    /\ UNCHANGED <<bMap, bNextId, eqVars, mVars, pVars, gVars, aVars, fVars, qVars, cVars, nVars, tVars>>

\* join: quiz.register(command.user.id) on Some(quiz)
Join(t) ==
    /\ Free(t)
    /\ ~ bPoisoned
    /\ \E user \in Users :
          IF bMap.st = "some"
          THEN LET r == register(bMap.participants, user)
               IN /\ bMap' = [bMap EXCEPT !.participants = r.participants]
                  /\ Finish(t, user, IF r.ok THEN "Added" ELSE "AlreadyRegistered")
          ELSE /\ UNCHANGED bMap
               /\ Finish(t, user, "StartFirst")
    /\ UNCHANGED <<bPoisoned, bNextId, eqVars, mVars, pVars, gVars, aVars, fVars, qVars, cVars, nVars, tVars>>

\* give-up, its first statement under the lock: quiz.accepts_give_up, then
\* quiz.is_empty()
GiveUp(t) ==
    /\ Free(t)
    /\ ~ bPoisoned
    /\ \E user \in Users :
          IF bMap.st = "some"
          THEN LET r == accepts_give_up(bMap.participants, user)
               IN IF ~ r.ok
                  THEN /\ UNCHANGED bMap
                       /\ Finish(t, user, "NotRegistered")
                  ELSE /\ bMap' = [bMap EXCEPT !.participants = r.participants,
                                               !.abandoned = @ \/ r.participants = {}]
                       /\ IF r.participants = {}
                          THEN Step(t, "giveup_empty", user, <<>>, "Removed", bMap.id)
                          ELSE Finish(t, user, "Removed")
          ELSE /\ UNCHANGED bMap
               /\ Finish(t, user, "StartFirst")
    /\ UNCHANGED <<bPoisoned, bNextId, eqVars, mVars, pVars, gVars, aVars, fVars, qVars, cVars, nVars, tVars>>

\* if is_empty: the answer is read under the lock and shown
GiveUpAnswer(t) ==
    /\ bPc[t] = "giveup_empty"
    /\ Step(t, "giveup_answered", bUser[t], <<>>,
            IF bMap.st = "some" THEN "Answer" ELSE bReply[t], bSeen[t])
    /\ UNCHANGED <<bMap, bPoisoned, bNextId, eqVars, mVars, pVars, gVars, aVars, fVars, qVars, cVars, nVars, tVars>>

\* then channel_map.entry(channel_id).and_modify(|quiz| *quiz = None)
GiveUpReset(t) ==
    /\ bPc[t] = "giveup_answered"
    /\ bMap' = IF bMap.st = "absent" THEN bMap ELSE NoQuiz
    /\ Finish(t, bUser[t], bReply[t])
    /\ UNCHANGED <<bPoisoned, bNextId, eqVars, mVars, pVars, gVars, aVars, fVars, qVars, cVars, nVars, tVars>>

NextBot ==
    \/ \E t \in Tasks : LockUnwrapPanics(t)
    \/ \E t \in Tasks : Start(t)
    \/ \E t \in Tasks : QueryCheck(t)
    \/ \E t \in Tasks : QueryRecord(t)
    \/ \E t \in Tasks : GuessCheck(t)
    \/ \E t \in Tasks : GuessEvaluate(t)
    \/ \E t \in Tasks : GuessReset(t)
    \/ \E t \in Tasks : Summary(t)
    \/ \E t \in Tasks : Join(t)
    \/ \E t \in Tasks : GiveUp(t)
    \/ \E t \in Tasks : GiveUpAnswer(t)
    \/ \E t \in Tasks : GiveUpReset(t)

SpecBot == InitBot /\ [][NextBot]_vars

\* C21: the channel's quiz is reset to none exactly when a registered
\* participant's guess is equivalent to the answer or when the last registered
\* participant gives up: whatever command takes the step, a quiz that is
\* removed is one a participant has solved or one its last participant has
\* left.
C21_ResetOnlyWhenSolvedOrAbandoned ==
    [][(bMap.st = "some" /\ bMap'.st = "none") => (bMap.solved \/ bMap.abandoned)]_vars

\* C22: under any interleaving of the handlers, a query outcome is recorded in
\* a quiz's history only if the querying user is a registered participant of
\* that same quiz at the moment the outcome is recorded.
C22_RecordOnlyByParticipant ==
    [][\A t \in Tasks :
          (bPc[t] = "query_checked" /\ bPc'[t] = "done" /\ bReply'[t] \in {"Yes", "No"})
              => is_joined(bMap, bUser[t])]_vars

\* C23: the reset to None after an accepted guess or after the last give-up
\* removes only the quiz instance that guess or give-up was evaluated on, and
\* after a give-up only a quiz that still has no participant.
C23_ResetRemovesEvaluatedQuiz ==
    [][(bMap.st = "some" /\ bMap'.st = "none") =>
          \E t \in Tasks :
              /\ bPc[t] \in {"guess_accepted", "giveup_answered"}
              /\ bPc'[t] = "done"
              /\ bSeen[t] = bMap.id
              /\ (bPc[t] = "giveup_answered" => bMap.participants = {})]_vars

\* C24: on a channel with no entry in channel_map every handler of query,
\* guess, summary, join and give-up ends with a 'not started / join first'
\* reply, leaves channel_map as it was, and leaves the lock usable: none
\* panics and the Mutex is not poisoned.
C24_NoEntryHandledGracefully ==
    bMap = Absent =>
        /\ ~ bPoisoned
        /\ \A t \in Tasks :
              /\ bPc[t] # "panicked"
              /\ bPc[t] = "done" => bReply[t] \in {"JoinFirst", "NotStarted", "StartFirst"}

(***************************************************************************)
(* Quiz::register and Quiz::accepts_give_up on the participants of a quiz. *)
(***************************************************************************)

\* quiz.register(user)
CallRegister ==
    /\ qPc \in {"ready", "returned"}
    /\ \E user \in Users :
          LET r == register(qParticipants, user)
          IN /\ qUser' = user
             /\ qParticipants' = r.participants
             /\ qOut' = QuizOut(IF r.ok THEN "Ok" ELSE "AlreadyRegistered")
    /\ qOp' = "register"
    /\ qPc' = "returned"
    /\ UNCHANGED <<qSize, qRegex, qHistory, qInput, eqVars, mVars, pVars, gVars, aVars, fVars, cVars, bVars, nVars, tVars>>

\* quiz.accepts_give_up(user): Err, Ok(Left) or Ok(Right)
CallAcceptsGiveUp ==
    /\ qPc \in {"ready", "returned"}
    /\ \E user \in Users :
          LET r == accepts_give_up(qParticipants, user)
          IN /\ qUser' = user
             /\ qParticipants' = r.participants
             /\ qOut' = QuizOut(IF ~ r.ok THEN "NotRegistered"
                                ELSE IF r.right THEN "Right" ELSE "Left")
    /\ qOp' = "accepts_give_up"
    /\ qPc' = "returned"
    /\ UNCHANGED <<qSize, qRegex, qHistory, qInput, eqVars, mVars, pVars, gVars, aVars, fVars, cVars, bVars, nVars, tVars>>

NextMembers == CallRegister \/ CallAcceptsGiveUp

SpecMembers == InitQuiz /\ [][NextMembers]_vars

\* C26: register(u) fails with 'already registered' and leaves the set as it
\* was when u is a participant, and otherwise adds exactly u;
\* accepts_give_up(u) fails with 'not registered' and leaves the set as it was
\* when u is no participant, otherwise removes exactly u and reveals the answer
\* (Right) if and only if the set is empty afterwards.
C26_RegisterAndGiveUp ==
    [][/\ (qPc' = "returned" /\ qOp' = "register") =>
             IF qUser' \in qParticipants
             THEN qOut'.tag = "AlreadyRegistered" /\ qParticipants' = qParticipants
             ELSE qOut'.tag = "Ok" /\ qParticipants' = qParticipants \cup {qUser'}
       /\ (qPc' = "returned" /\ qOp' = "accepts_give_up") =>
             IF qUser' \notin qParticipants
             THEN qOut'.tag = "NotRegistered" /\ qParticipants' = qParticipants
             ELSE /\ qParticipants' = qParticipants \ {qUser'}
                  /\ qOut'.tag \in {"Left", "Right"}
                  /\ (qOut'.tag = "Right") <=> (qParticipants' = {})]_vars

C26_Witness ==
    /\ qPc = "returned"
    /\ qOp = "accepts_give_up"
    /\ qUser = 1
    /\ qParticipants = {2}
    /\ qOut.tag = "Left"

(***************************************************************************)
(* nfa_manipulations.rs: NfaData values built from epsilon() and literal() *)
(* by concat, concat_all, union_all and star.  nX holds the last value     *)
(* built, nY a clone kept from before; the operands are taken among them.  *)
(***************************************************************************)

\* Largest max_index of a value the model builds, and longest Vec handed to
\* concat_all and union_all.
MaxIndex == 4
MaxFrags == 2

Atoms == {epsilon} \cup {literal(a) : a \in Symbols}

\* the Vecs of fragments over the values at hand
FragmentVecs == UNION {[1..n -> {nX, nY}] : n \in 1..MaxFrags}

InitNfa ==
    /\ nX \in Atoms
    /\ nY \in Atoms
    /\ nOp = "new"
    /\ nFrags = <<>>
    /\ EqIdle
    /\ MatchIdle
    /\ ParseIdle
    /\ GenIdle
    /\ AlphaIdle
    /\ FmtIdle
    /\ QuizIdle
    /\ CmdIdle
    /\ BotIdle
    /\ PartIdle

\* the value built by an operation becomes nX
Built(op, frags, nfa) ==
    /\ nfa.max_index <= MaxIndex
    /\ nX' = nfa
    /\ nOp' = op
    /\ nFrags' = frags
    /\ UNCHANGED <<nY, eqVars, mVars, pVars, gVars, aVars, fVars, qVars, cVars, bVars, tVars>>

\* NfaData::epsilon() or NfaData::literal(alphabet)
NewAtom ==
    /\ nX' \in Atoms
    /\ nOp' = "new"
    /\ nFrags' = <<>>
    /\ UNCHANGED <<nY, eqVars, mVars, pVars, gVars, aVars, fVars, qVars, cVars, bVars, tVars>>

\* nfa.clone()
KeepClone ==
    /\ nY # nX
    /\ nY' = nX
    /\ nOp' = "clone"
    /\ nFrags' = <<>>
    /\ UNCHANGED <<nX, eqVars, mVars, pVars, gVars, aVars, fVars, qVars, cVars, bVars, tVars>>

\* left.concat(&right)
CallConcat == \E left \in {nX, nY}, right \in {nX, nY} : Built("concat", <<left, right>>, concat(left, right))

\* NfaData::concat_all(nfas)
CallConcatAll == \E nfas \in FragmentVecs : Built("concat_all", nfas, concat_all(nfas))

\* NfaData::union_all(nfas)
CallUnionAll == \E nfas \in FragmentVecs : Built("union_all", nfas, union_all(nfas))

\* NfaData::star(&nfa)
CallStar == \E nfa \in {nX, nY} : Built("star", <<nfa>>, star(nfa))

NextNfa == NewAtom \/ KeepClone \/ CallConcat \/ CallConcatAll \/ CallUnionAll \/ CallStar

SpecNfa == InitNfa /\ [][NextNfa]_vars

\* the datatype invariant of NfaData: every index is one of 0..max_index
WellIndexed(nfa) ==
    /\ nfa.max_index >= 0
    /\ \A i \in 1..Len(nfa.edges) :
          /\ nfa.edges[i][1] \in 0..nfa.max_index
          /\ nfa.edges[i][3] \in 0..nfa.max_index
    /\ \A i \in 1..Len(nfa.finals) : nfa.finals[i] \in 0..nfa.max_index

\* C27: every NfaData value reachable from epsilon() and literal() through
\* concat, concat_all, union_all and star keeps the datatype invariant: no
\* edge endpoint and no accepting index exceeds max_index, and the indices
\* start at the start state 0.
C27_NfaDataInvariant == WellIndexed(nX) /\ WellIndexed(nY)

C27_Witness ==
    /\ nOp = "union_all"
    /\ Len(nFrags) = 2
    /\ nFrags[1] = literal("A")
    /\ nFrags[2].max_index = 1
    /\ nX.max_index = 4

RECURSIVE Offset(_, _)
\* where fragment i starts once every fragment before it has its own range
\* after the fresh state 0
Offset(frags, i) ==
    IF i = 1 THEN 1 ELSE Offset(frags, i - 1) + frags[i - 1].max_index + 1

\* the edges and accepting states of a fragment moved by shift
ShiftedEdges(nfa, shift) ==
    {<<nfa.edges[i][1] + shift, nfa.edges[i][2], nfa.edges[i][3] + shift>> : i \in 1..Len(nfa.edges)}
ShiftedFinals(nfa, shift) == {nfa.finals[i] + shift : i \in 1..Len(nfa.finals)}

\* result has a fresh start 0, each fragment in its own range, one epsilon edge
\* from 0 to the start of each fragment, and the accepting states of all
UnionOnFreshStart(frags, result) ==
    LET n == Len(frags)
        StartEdges == {<<0, NoLabel, Offset(frags, i)>> : i \in 1..n}
    IN /\ result.max_index = Offset(frags, n) + frags[n].max_index
       /\ Range(result.edges) =
             StartEdges \cup UNION {ShiftedEdges(frags[i], Offset(frags, i)) : i \in 1..n}
       /\ \A e \in StartEdges : Cardinality({j \in 1..Len(result.edges) : result.edges[j] = e}) = 1
       /\ \A j \in 1..Len(result.edges) : result.edges[j] \notin StartEdges => result.edges[j][1] # 0
       /\ \A j \in 1..Len(result.edges) : result.edges[j][3] # 0
       /\ Range(result.finals) = UNION {ShiftedFinals(frags[i], Offset(frags, i)) : i \in 1..n}

\* C28 as stated: for every non-empty list of fragments, a list of exactly one
\* fragment included, union_all returns an automaton whose state 0 is a fresh
\* start distinct from every state of every fragment, each fragment shifted
\* into its own disjoint index range, one epsilon edge from 0 to each
\* fragment's shifted start, and the union of the shifted accepting sets.
C28_UnionAllFreshStart ==
    nOp = "union_all" => UnionOnFreshStart(nFrags, nX)

\* C28 as amended: the same for every list of at least two fragments; for a
\* list of exactly one fragment union_all returns that fragment as it is.
C28_UnionAllFreshStartFromTwo ==
    nOp = "union_all" =>
        IF Len(nFrags) = 1 THEN nX = nFrags[1] ELSE UnionOnFreshStart(nFrags, nX)

C28_Witness ==
    /\ nOp = "union_all"
    /\ nFrags = <<star(literal("A")), epsilon>>
    /\ nX.max_index = 4

\* C29: every AST randomly_generate returns is in canonical form: each
\* Concatenation and each Alternation node has at least 2 children.
C29_GeneratedCanonical ==
    gPc \in {"returned", "round"} => Canonical(gAst)

(***************************************************************************)
(* generate_quiz.rs: the size budgets along one path of the recursion of   *)
(* BoundedRegexAstDistribution::sample, from the root to a leaf.           *)
(***************************************************************************)

\* max_tree_size of the root distribution in the model.
PartBudget == 8

\* BoundedRegexAstDistribution::tree_size_decremented: checked_sub(1), the
\* Option as a sequence of at most one element; the caller's unwrap panics
\* on None.
tree_size_decremented(max_tree_size) ==
    IF max_tree_size = 0 THEN <<>> ELSE <<max_tree_size - 1>>

RECURSIVE SumParts(_, _)
SumParts(parts, i) == IF i > Len(parts) THEN 0 ELSE parts[i] + SumParts(parts, i + 1)

\* generate_ast_smaller_than(alphabets, tree_size)
InitPart ==
    /\ tPc = "sample"
    /\ tBudget = PartBudget
    /\ tMax = 0
    /\ tParts = <<>>
    /\ EqIdle
    /\ MatchIdle
    /\ ParseIdle
    /\ GenIdle
    /\ AlphaIdle
    /\ FmtIdle
    /\ QuizIdle
    /\ CmdIdle
    /\ BotIdle
    /\ NfaIdle

\* case 0 or 1: Epsilon or Literal
SampleLeaf ==
    /\ tPc = "sample"
    /\ tPc' = "leaf"
    /\ UNCHANGED <<tBudget, tMax, tParts, eqVars, mVars, pVars, gVars, aVars, fVars, qVars, cVars, bVars, nVars>>

\* case 2, of weight 0 unless max_tree_size >= 2: Star of a sample of the
\* decremented distribution
SampleStar ==
    /\ tPc = "sample"
    /\ tBudget >= 2
    /\ IF tree_size_decremented(tBudget) = <<>>
          THEN tPc' = "panicked" /\ UNCHANGED tBudget
          ELSE tBudget' = tree_size_decremented(tBudget)[1] /\ UNCHANGED tPc
    /\ UNCHANGED <<tMax, tParts, eqVars, mVars, pVars, gVars, aVars, fVars, qVars, cVars, bVars, nVars>>

\* case 3 or 4, of weight 0 unless max_tree_size >= 3: Concatenation or
\* Alternation of RegexTreeVec::from(self.tree_size_decremented())
SampleVec ==
    /\ tPc = "sample"
    /\ tBudget >= 3
    /\ IF tree_size_decremented(tBudget) = <<>>
          THEN tPc' = "panicked" /\ UNCHANGED tMax
          ELSE tMax' = tree_size_decremented(tBudget)[1] /\ tPc' = "partition"
    /\ UNCHANGED <<tBudget, tParts, eqVars, mVars, pVars, gVars, aVars, fVars, qVars, cVars, bVars, nVars>>

\* RegexTreeVec::sample: PartitionTreeSize{max_sum}.sample(rng)
SamplePartition ==
    /\ tPc = "partition"
    /\ tParts' \in PartitionTreeSize(tMax)
    /\ tPc' = "children"
    /\ UNCHANGED <<tBudget, tMax, eqVars, mVars, pVars, gVars, aVars, fVars, qVars, cVars, bVars, nVars>>

\* sizes.into_iter().map(|size| BoundedRegexAstDistribution{size}.sample(rng)):
\* one of the children
SampleChild ==
    /\ tPc = "children"
    /\ \E i \in 1..Len(tParts) : tBudget' = tParts[i]
    /\ tPc' = "sample"
    /\ tParts' = <<>>
    /\ UNCHANGED <<tMax, eqVars, mVars, pVars, gVars, aVars, fVars, qVars, cVars, bVars, nVars>>

NextPart == SampleLeaf \/ SampleStar \/ SampleVec \/ SamplePartition \/ SampleChild

SpecPart == InitPart /\ [][NextPart]_vars

\* C30: for every budget m >= 2 and every sequence of draws,
\* PartitionTreeSize{max_sum: m}.sample returns a non-empty list of strictly
\* positive integers whose sum is exactly m, so every child subtree is sampled
\* with a budget of at least 1 and tree_size_decremented is never called with
\* budget 0.
C30_PartitionPositiveExactSum ==
    /\ tPc = "children" =>
          /\ tMax >= 2
          /\ Len(tParts) >= 1
          /\ \A i \in 1..Len(tParts) : tParts[i] >= 1
          /\ SumParts(tParts, 1) = tMax
    /\ tPc = "sample" => tBudget >= 1
    /\ tPc # "panicked"

C30_Witness ==
    /\ tPc = "children"
    /\ tMax = 7
    /\ tParts = <<3, 1, 3>>

====
